---------------------------- MODULE Spec2Model ----------------------------
(***************************************************************************)
(* A model of github.com/mhpenta/app: the MetaError error-context type     *)
(* (construction, formatting, the '|'-delimited record codec, the stack    *)
(* capture loop) and the parseFuncName symbol parser.                      *)
(*                                                                         *)
(* Go strings are modelled as sequences of one-character strings, so that  *)
(* quoting, trimming and splitting are computed character by character as  *)
(* the code computes them.  Go's 0-based indices are kept in the helper    *)
(* operators (Slice(s, lo, hi) is s[lo:hi]); -1 is "not found".            *)
(***************************************************************************)
EXTENDS Integers, Sequences, FiniteSets, TLC

VARIABLES
    heap,       \* the allocated *MetaError objects, by address 1..Len(heap)
    call,       \* the last library call: its name and arguments
    ret,        \* what the last call returned
    panicked,   \* TRUE when the last call ended in a runtime panic
    renders,    \* per object: how often StackTrace stored e.stackTraceString
    csvIn,      \* codec: the MetaError handed to ToCSV
    csvRec,     \* codec: the text ToCSV returned / MetaErrorFromCSV is given
    csvDec,     \* codec: what MetaErrorFromCSV returned
    csvPc,      \* codec: position of the encode/decode run
    fullName,   \* parser: the argument of parseFuncName
    parsed,     \* parser: its result
    parsePc,    \* parser: position of the run
    capAvail,   \* capture loop: frames the runtime has from the skip depth on
    capLen,     \* capture loop: len(pcs)
    capN,       \* capture loop: n, the count runtime.Callers returned
    capTried,   \* capture loop: the buffer sizes tried so far
    capStored,  \* capture loop: metaErr.stackTrace once stored
    capPc,      \* capture loop: position in NewMetaErrorOptions lines 93-104
    multi,      \* the *MultiError in hand: nil, or its Errors list
    rt,         \* a run of one of the retry functions: its locals and its trace
    dbg         \* DebugContext objects, their maps, and the goroutines using them

vars == <<heap, call, ret, panicked, renders, csvIn, csvRec, csvDec, csvPc,
          fullName, parsed, parsePc,
          capAvail, capLen, capN, capTried, capStored, capPc, multi,
          rt, dbg>>

objVars == <<heap, call, ret, panicked, renders>>
csvVars == <<csvIn, csvRec, csvDec, csvPc>>
parseVars == <<fullName, parsed, parsePc>>
capVars == <<capAvail, capLen, capN, capTried, capStored, capPc>>
multiVars == <<multi>>
retryVars == <<rt>>
dbgVars == <<dbg>>

-----------------------------------------------------------------------------
(* Go's strings package, on sequences of characters.                       *)

Slice(s, lo, hi) == SubSeq(s, lo + 1, hi)

StringsUpTo(alphabet, n) == UNION {[1..k -> alphabet] : k \in 0..n}

Min(a, b) == IF a < b THEN a ELSE b

SetMin(S) == CHOOSE i \in S : \A j \in S : i <= j

SetMax(S) == CHOOSE i \in S : \A j \in S : i >= j

\* The 0-based positions at which sub occurs in s.
Hits(s, sub) ==
    {i \in 0..(Len(s) - Len(sub)) : Slice(s, i, i + Len(sub)) = sub}

FirstOrNone(S) == IF S = {} THEN -1 ELSE SetMin(S)

LastOrNone(S) == IF S = {} THEN -1 ELSE SetMax(S)

\* strings.Index(s, sub): the first 0-based position of sub in s, or -1.
Index(s, sub) == FirstOrNone(Hits(s, sub))

\* strings.LastIndex(s, sub): the last 0-based position of sub in s, or -1.
LastIndex(s, sub) == LastOrNone(Hits(s, sub))

Contains(s, sub) == Index(s, sub) >= 0

HasPrefix(s, p) == Len(s) >= Len(p) /\ Slice(s, 0, Len(p)) = p

HasSuffix(s, p) == Len(s) >= Len(p) /\ Slice(s, Len(s) - Len(p), Len(s)) = p

TrimSuffix(s, p) == IF HasSuffix(s, p) THEN Slice(s, 0, Len(s) - Len(p)) ELSE s

\* strings.Split(s, sep) for a one-character separator.
RECURSIVE Split(_, _)
RECURSIVE SplitAt(_, _, _)
Split(s, sep) == SplitAt(s, sep, Index(s, sep))

SplitAt(s, sep, i) ==
    IF i < 0 THEN <<s>>
    ELSE <<Slice(s, 0, i)>> \o Split(Slice(s, i + Len(sep), Len(s)), sep)

\* unicode.IsSpace, on the characters a TLA+ string literal can hold.
SpaceChars == {" ", "\t", "\n", "\r", "\f"}

RECURSIVE TrimLeftSpace(_)
TrimLeftSpace(s) ==
    IF s # <<>> /\ Head(s) \in SpaceChars THEN TrimLeftSpace(Tail(s)) ELSE s

RECURSIVE TrimRightSpace(_)
TrimRightSpace(s) ==
    IF s # <<>> /\ s[Len(s)] \in SpaceChars
    THEN TrimRightSpace(Slice(s, 0, Len(s) - 1)) ELSE s

TrimSpace(s) == TrimRightSpace(TrimLeftSpace(s))

-----------------------------------------------------------------------------
(* strconv.Itoa and strconv.Atoi.                                          *)

Digits == <<"0", "1", "2", "3", "4", "5", "6", "7", "8", "9">>

DigitChars == {Digits[i] : i \in 1..10}

DigitVal(c) == (CHOOSE i \in 1..10 : Digits[i] = c) - 1

RECURSIVE UItoa(_)
UItoa(n) == IF n < 10 THEN <<Digits[n + 1]>>
            ELSE UItoa(n \div 10) \o <<Digits[(n % 10) + 1]>>

Itoa(n) == IF n < 0 THEN <<"-">> \o UItoa(-n) ELSE UItoa(n)

RECURSIVE UParse(_, _)
UParse(s, acc) == IF s = <<>> THEN acc
                  ELSE UParse(Tail(s), acc * 10 + DigitVal(Head(s)))

\* strconv.Atoi(s): an optional sign, then one or more decimal digits.
\* [ok |-> FALSE] is the *NumError result.  Atoi also fails when the value
\* does not fit a 64-bit int; that takes 19 digits or more, which is beyond
\* the length of the inputs drawn here, so the range test has no case.
Atoi(s) ==
    LET signed == s # <<>> /\ Head(s) \in {"+", "-"}
        body   == IF signed THEN Tail(s) ELSE s
        neg    == signed /\ Head(s) = "-"
    IN  IF body = <<>> \/ \E i \in 1..Len(body) : body[i] \notin DigitChars
        THEN [ok |-> FALSE, val |-> 0]
        ELSE [ok |-> TRUE,
              val |-> IF neg THEN 0 - UParse(body, 0) ELSE UParse(body, 0)]

-----------------------------------------------------------------------------
(* Error values.  A Go error is nil, an *errors.errorString (errors.New,    *)
(* with its own address) or a *MetaError (an address into heap).            *)

NilErr == [kind |-> "nil", msg |-> <<>>, id |-> 0]

BaseErr(m, i) == [kind |-> "base", msg |-> m, id |-> i]

MetaRef(i) == [kind |-> "meta", msg |-> <<>>, id |-> i]

\* The longest chain of fmt.Errorf("w:%w", ...) wrappers around a base error.
MaxWraps == 2

\* The error the wrappers wrap: errors.New("e").
WrappedBase == BaseErr(<<"e">>, 1)

\* fmt.Errorf("w:%w", inner), k layers of it around WrappedBase.
RECURSIVE WrapMsg(_)
WrapMsg(k) == IF k = 0 THEN WrappedBase.msg ELSE <<"w", ":">> \o WrapMsg(k - 1)

WrapErr(k) == [kind |-> "wrap", msg |-> WrapMsg(k), id |-> k]

\* (*fmt.wrapError) Unwrap()
WrapInner(err) == IF err.id = 1 THEN WrappedBase ELSE WrapErr(err.id - 1)

\* The type assertion err.(*MetaError).
IsMetaErrorNever(err) == FALSE

IsMetaError(err) == err.kind = "meta"

\* The MetaError struct.
MetaErr(err, file, line, fn, pkg, st, csv) ==
    [Err |-> err, File |-> file, Line |-> line, Func |-> fn, Package |-> pkg,
     stackTrace |-> st, stackTraceString |-> <<>>, asCSV |-> csv]

NilText == <<"<", "n", "i", "l", ">">>

\* err.Error() of a non-nil error value, and (e *MetaError) Error().
RECURSIVE ErrError(_, _)
RECURSIVE MetaErrorError(_, _)
ErrError(h, err) ==
    IF err.kind = "meta" THEN MetaErrorError(h, h[err.id]) ELSE err.msg

MetaErrorError(h, e) == IF e.Err = NilErr THEN NilText ELSE ErrError(h, e.Err)

-----------------------------------------------------------------------------
(* encoding/csv as ToCSV and MetaErrorFromCSV configure it: Comma '|',      *)
(* UseCRLF, LazyQuotes and TrimLeadingSpace off, no Comment character.      *)

Comma == "|"

Quote == "\""

\* csv.Writer.fieldNeedsQuotes.
FieldNeedsQuotes(field) ==
    IF field = <<>> THEN FALSE
    ELSE IF field = <<"\\", ".">> THEN TRUE
    ELSE IF \E i \in 1..Len(field) : field[i] \in {"\n", "\r", Quote, Comma}
    THEN TRUE
    ELSE Head(field) \in SpaceChars

\* The body of a quoted field: a quote is doubled, \r and \n are written
\* as they are (UseCRLF is false).
RECURSIVE QuotedBody(_)
QuotedBody(field) ==
    IF field = <<>> THEN <<>>
    ELSE (IF Head(field) = Quote THEN <<Quote, Quote>> ELSE <<Head(field)>>)
         \o QuotedBody(Tail(field))

WriteField(field) ==
    IF FieldNeedsQuotes(field) THEN <<Quote>> \o QuotedBody(field) \o <<Quote>>
    ELSE field

\* csv.Writer.Write followed by Flush: the fields, comma-separated, and "\n".
RECURSIVE WriteFields(_)
WriteFields(record) ==
    IF Len(record) = 1 THEN WriteField(record[1])
    ELSE WriteField(Head(record)) \o <<Comma>> \o WriteFields(Tail(record))

WriteRecord(record) == WriteFields(record) \o <<"\n">>

\* (e *MetaError) ToCSV(), for e.Err non-nil.
ToCSVRecord(h, e) ==
    <<ErrError(h, e.Err), e.File, Itoa(e.Line), e.Func, e.Package>>

ToCSV(h, e) == TrimSpace(WriteRecord(ToCSVRecord(h, e)))

\* ToCSV calls e.Err.Error() on a nil interface value when e.Err is nil.
ToCSVPanics(e) == e.Err = NilErr

\* csv.Reader.readLine: the next line with its "\n"; a final line without
\* one loses a trailing "\r"; a trailing "\r\n" becomes "\n".
DropFinalCR(raw, i) ==
    IF i < 0 /\ raw[Len(raw)] = "\r" THEN Slice(raw, 0, Len(raw) - 1) ELSE raw

NormalizeNL(l) ==
    IF Len(l) >= 2 /\ l[Len(l) - 1] = "\r" /\ l[Len(l)] = "\n"
    THEN Slice(l, 0, Len(l) - 2) \o <<"\n">> ELSE l

\* i is the position of the first "\n" of rest, or -1.
ReadLineAt(rest, i) ==
    [line |-> NormalizeNL(DropFinalCR(
                  IF i >= 0 THEN Slice(rest, 0, i + 1) ELSE rest, i)),
     rest |-> IF i >= 0 THEN Slice(rest, i + 1, Len(rest)) ELSE <<>>,
     eof  |-> FALSE]

ReadLine(rest) ==
    IF rest = <<>> THEN [line |-> <<>>, rest |-> <<>>, eof |-> TRUE]
    ELSE ReadLineAt(rest, Index(rest, <<"\n">>))

LengthNL(line) == IF line # <<>> /\ line[Len(line)] = "\n" THEN 1 ELSE 0

ParseErr == [err |-> TRUE, fields |-> <<>>]

\* csv.Reader.readRecord's parseField loop.  ParseField is at the start of a
\* field of the current line; ParseQuoted is inside a quoted field, buf
\* holding what was read of it.  rest is the input not yet read.
RECURSIVE ParseField(_, _, _)
RECURSIVE ParsePlain(_, _, _, _, _)
RECURSIVE ParseQuoted(_, _, _, _)
RECURSIVE ParseQuotedAt(_, _, _, _, _)
RECURSIVE AfterQuote(_, _, _, _)
RECURSIVE ParseQuotedNext(_, _, _)
ParseField(line, rest, fields) ==
    IF line = <<>> \/ Head(line) # Quote
    THEN ParsePlain(line, rest, fields, Index(line, <<Comma>>),
                    IF Index(line, <<Comma>>) >= 0
                    THEN Slice(line, 0, Index(line, <<Comma>>))
                    ELSE Slice(line, 0, Len(line) - LengthNL(line)))
    ELSE ParseQuoted(Tail(line), rest, fields, <<>>)

\* A non-quoted field: field is the text up to the comma at i, or up to the
\* end of the line when i < 0.
ParsePlain(line, rest, fields, i, field) ==
    IF Contains(field, <<Quote>>) THEN ParseErr               \* ErrBareQuote
    ELSE IF i >= 0
    THEN ParseField(Slice(line, i + 1, Len(line)), rest, Append(fields, field))
    ELSE [err |-> FALSE, fields |-> Append(fields, field)]

ParseQuoted(line, rest, fields, buf) ==
    ParseQuotedAt(line, rest, fields, buf, Index(line, <<Quote>>))

\* i is the position of the next quote of line, or -1.
ParseQuotedAt(line, rest, fields, buf, i) ==
    IF i >= 0
    THEN AfterQuote(Slice(line, i + 1, Len(line)), rest, fields,
                    buf \o Slice(line, 0, i))
    ELSE IF Len(line) > 0
    THEN ParseQuotedNext(ReadLine(rest), fields, buf \o line)
    ELSE ParseErr                                  \* ErrQuote at end of input

\* l is the line after a quote met inside a quoted field.
AfterQuote(l, rest, fields, b) ==
    IF l # <<>> /\ Head(l) = Quote
    THEN ParseQuoted(Tail(l), rest, fields, Append(b, Quote))
    ELSE IF l # <<>> /\ Head(l) = Comma
    THEN ParseField(Tail(l), rest, Append(fields, b))
    ELSE IF LengthNL(l) = Len(l)
    THEN [err |-> FALSE, fields |-> Append(fields, b)]
    ELSE ParseErr                                             \* ErrQuote

\* The quoted field goes on in the next line rl.
ParseQuotedNext(rl, fields, buf) == ParseQuoted(rl.line, rl.rest, fields, buf)

FieldsPerRecord == 5

\* csv.Reader.readRecord: skip empty lines, then parse the fields of one
\* record (which may span lines inside a quoted field).
RECURSIVE ReadFields(_)
RECURSIVE ReadFieldsFrom(_)
ReadFields(input) == ReadFieldsFrom(ReadLine(input))

ReadFieldsFrom(rl) ==
    IF rl.eof THEN ParseErr                                   \* io.EOF
    ELSE IF Len(rl.line) = LengthNL(rl.line) THEN ReadFields(rl.rest)
    ELSE ParseField(rl.line, rl.rest, <<>>)

\* csv.Reader.Read with FieldsPerRecord > 0: a record of another length is
\* ErrFieldCount.
CheckFieldCount(r) ==
    IF r.err THEN ParseErr
    ELSE IF Len(r.fields) # FieldsPerRecord THEN ParseErr
    ELSE r

ReadRecord(input) == CheckFieldCount(ReadFields(input))

\* (nil, ErrNotMetaError)
NotMetaError == [ok |-> FALSE, me |-> MetaErr(NilErr, <<>>, 0, <<>>, <<>>, <<>>, FALSE)]

\* A line parse that takes an empty field for 0.
AtoiLenient(s) == IF s = <<>> THEN [ok |-> TRUE, val |-> 0] ELSE Atoi(s)

\* strconv.Atoi(record[2])

LineOf(s) == Atoi(s)

\* MetaErrorFromCSV lines 229-245, on the record r that Read returned
\* without an error and the result a of strconv.Atoi(record[2]).
FromRecord(r, a, fresh) ==
    IF Len(r.fields) # 5 THEN NotMetaError
    ELSE IF ~a.ok THEN NotMetaError
    ELSE [ok |-> TRUE,
          me |-> MetaErr(BaseErr(r.fields[1], fresh), r.fields[2], a.val,
                         r.fields[4], r.fields[5], <<>>, FALSE)]

FromRead(r, fresh) ==
    IF r.err THEN NotMetaError
    ELSE FromRecord(r, IF Len(r.fields) >= 3 THEN LineOf(r.fields[3])
                       ELSE [ok |-> FALSE, val |-> 0], fresh)

\* MetaErrorFromCSV(csvStr); fresh is the address of the errors.New value.
MetaErrorFromCSV(csvStr, fresh) == FromRead(ReadRecord(csvStr), fresh)

-----------------------------------------------------------------------------
(* The call stack and the runtime's introspection of it.  A frame is a      *)
(* function's qualified name with the file and line of its call             *)
(* instruction; a stack lists the frames innermost first.                   *)

Frame(fn, file, line) == [fn |-> fn, file |-> file, line |-> line]

\* "app.NewMetaErrorOptions", "app.NewMetaError" and "runtime.Callers": the
\* library's own frames (names shortened to package.initial).
AppFile == <<"/", "a", "/", "m", ".", "g", "o">>

FrameOptions == Frame(<<"a", "p", "p", ".", "O">>, AppFile, 95)

FrameNew == Frame(<<"a", "p", "p", ".", "N">>, AppFile, 44)

FrameCallers == Frame(<<"r", "t", ".", "C">>, <<"/", "r", "/", "x", ".", "g", "o">>, 1)

\* The callers' side: "x/m.G" called from "rt.main", and a closure
\* "x/m.G.func1" inside G.
UserFile == <<"/", "s", "/", "g", ".", "g", "o">>

FrameMain == Frame(<<"r", "t", ".", "m">>, <<"/", "r", "/", "p", ".", "g", "o">>, 3)

FrameG == Frame(<<"x", "/", "m", ".", "G">>, UserFile, 7)

FrameClosure ==
    Frame(<<"x", "/", "m", ".", "G", ".", "f", "u", "n", "c", "1">>, UserFile, 9)

UserStacks == { <<FrameG, FrameMain>>, <<FrameClosure, FrameG, FrameMain>> }

\* runtime.Caller(skip) inside the function on top of stack: skip 0 is that
\* function itself, 1 its caller; ok is false past the end of the stack.
CallerOk(stack, skip) == skip >= 0 /\ skip + 1 <= Len(stack)

CallerFrame(stack, skip) == stack[skip + 1]

\* What runtime.Callers(skip, pcs) can report from the function on top of
\* stack: skip 0 is Callers itself, 1 the function calling it.
CallersFrom(stack, skip) ==
    SubSeq(<<FrameCallers>> \o stack, skip + 1, Len(stack) + 1)

initialStackSize == 64

maxStackDepth == 1024

\* runtime.Callers(skip, pcs) returns min(available, len(pcs)).
CallersCount(avail, len) == Min(avail, len)

\* The loop condition of NewMetaErrorOptions line 96, without its bound.
GrowAgainUnbounded(n, len) == n = len

\* The loop condition of NewMetaErrorOptions line 96.
GrowAgain(n, len) == n = len /\ len < maxStackDepth

\* len(pcs) when the loop of lines 94-99 ends, from a buffer of length len.
RECURSIVE GrownLen(_, _)
GrownLen(avail, len) ==
    IF GrowAgain(CallersCount(avail, len), len) THEN GrownLen(avail, len * 2)
    ELSE len

\* Lines 100-103: pcs cut to maxStackDepth, then pcs[:n].
StoredCount(avail, len) ==
    CallersCount(avail, IF len > maxStackDepth THEN maxStackDepth ELSE len)

\* metaErr.stackTrace of lines 93-104, for the frames Callers can report.
CaptureStack(frames) ==
    SubSeq(frames, 1,
           StoredCount(Len(frames), GrownLen(Len(frames), initialStackSize)))

\* filepath.Base
RECURSIVE StripSlashes(_)
StripSlashes(path) ==
    IF Len(path) > 0 /\ path[Len(path)] = "/"
    THEN StripSlashes(Slice(path, 0, Len(path) - 1)) ELSE path

LastElement(path) == Slice(path, LastIndex(path, <<"/">>) + 1, Len(path))

BaseOfStripped(path) == IF path = <<>> THEN <<"/">> ELSE LastElement(path)

Base(path) == IF path = <<>> THEN <<".">> ELSE BaseOfStripped(StripSlashes(path))

UnknownText == <<"u", "n", "k", "n", "o", "w", "n">>

\* NewMetaErrorOptions lines 73-82: the split at the last '.'.
FuncOf(fullFuncName, lastDotIndex) ==
    IF lastDotIndex # -1
    THEN Slice(fullFuncName, lastDotIndex + 1, Len(fullFuncName))
    ELSE fullFuncName

PackageOf(fullFuncName, lastDotIndex) ==
    IF lastDotIndex # -1 THEN Slice(fullFuncName, 0, lastDotIndex)
    ELSE UnknownText

\* NewMetaErrorOptions once runtime.Caller(skip) answered: ok with frame f,
\* or not ok.
MetaErrAt(err, ok, f, st, csv) ==
    IF ok
    THEN MetaErr(err, Base(f.file), f.line,
                 FuncOf(f.fn, LastIndex(f.fn, <<".">>)),
                 PackageOf(f.fn, LastIndex(f.fn, <<".">>)), st, csv)
    ELSE MetaErr(err, Base(UnknownText), 0, UnknownText, UnknownText, st, csv)

\* NewMetaErrorOptions(err, skip, captureStack, asCSV), running on top of
\* stack (its own frame first): the object it allocates.
NewMetaErrorOptions(err, skip, captureStack, asCSV, stack) ==
    MetaErrAt(err, CallerOk(stack, skip),
              IF CallerOk(stack, skip) THEN CallerFrame(stack, skip)
              ELSE Frame(<<>>, <<>>, 0),
              IF captureStack THEN CaptureStack(CallersFrom(stack, skip))
              ELSE <<>>,
              asCSV)

-----------------------------------------------------------------------------
(* The methods of *MetaError.                                               *)

\* One frame as StackTrace writes it: "\n%s\n\t%s:%d".
RenderFrame(f) ==
    <<"\n">> \o f.fn \o <<"\n", "\t">> \o f.file \o <<":">> \o Itoa(f.line)

RECURSIVE RenderFrames(_)
RenderFrames(frames) ==
    IF frames = <<>> THEN <<>>
    ELSE RenderFrame(Head(frames)) \o RenderFrames(Tail(frames))

\* StackTrace() line 157: the early return for an object without a stack.
HasStack(e) == Len(e.stackTrace) # 0

\* The string StackTrace() returns.
StackTrace(e) == IF HasStack(e) THEN RenderFrames(e.stackTrace) ELSE <<>>

\* The object after StackTrace() ran on it: line 169 assigns the cache on
\* every call that gets past the early return.
AfterStackTrace(e) ==
    IF HasStack(e) THEN [e EXCEPT !.stackTraceString = RenderFrames(e.stackTrace)]
    ELSE e

\* The mutation of Unwrap() that returns no error.
UnwrapNothing(e) == NilErr

\* Unwrap()
Unwrap(e) == e.Err

\* errors.Unwrap(err): the result of err's Unwrap() error method, nil for an
\* error without one.
ErrorsUnwrap(h, err) ==
    IF err.kind = "meta" THEN Unwrap(h[err.id])
    ELSE IF err.kind = "wrap" THEN WrapInner(err)
    ELSE NilErr

\* errors.Is(err, target): identity, then the error's own Is method (a
\* *MetaError delegates to its Err), then Unwrap.
RECURSIVE ErrorsIsChain(_, _, _)
RECURSIVE ErrorsIs(_, _, _)
RECURSIVE Is(_, _, _)
ErrorsIsChain(h, err, target) ==
    IF err = target THEN TRUE
    ELSE IF err.kind = "meta" /\ Is(h, h[err.id], target) THEN TRUE
    ELSE IF ErrorsUnwrap(h, err) = NilErr THEN FALSE
    ELSE ErrorsIsChain(h, ErrorsUnwrap(h, err), target)

ErrorsIs(h, err, target) ==
    IF err = NilErr \/ target = NilErr THEN err = target
    ELSE ErrorsIsChain(h, err, target)

\* (e *MetaError) Is(target)
Is(h, e, target) == ErrorsIs(h, e.Err, target)

\* errors.As(err, target) for a target of the dynamic type named by kind:
\* the first error of the chain of that type, NilErr when there is none.
\* A *MetaError's own As method delegates to its Err.
RECURSIVE ErrorsAs(_, _, _)
RECURSIVE As(_, _, _)
ErrorsAs(h, err, kind) ==
    IF err = NilErr THEN NilErr
    ELSE IF err.kind = kind THEN err
    ELSE IF err.kind = "meta" /\ As(h, h[err.id], kind) # NilErr
    THEN As(h, h[err.id], kind)
    ELSE ErrorsAs(h, ErrorsUnwrap(h, err), kind)

\* (e *MetaError) As(target)
As(h, e, kind) == ErrorsAs(h, e.Err, kind)

\* The mutation of RootCause that takes every error for the root.
IsRootAlways(unwrapped) == TRUE

\* RootCause, lines 192-194: the error whose Unwrap gave unwrapped is the
\* root when unwrapped is nil.
IsRoot(unwrapped) == unwrapped = NilErr

\* strconv.Quote on the characters the model uses.
QuoteChar(c) ==
    CASE c = "\"" -> <<"\\", "\"">>
      [] c = "\\" -> <<"\\", "\\">>
      [] c = "\n" -> <<"\\", "n">>
      [] c = "\t" -> <<"\\", "t">>
      [] c = "\r" -> <<"\\", "r">>
      [] c = "\f" -> <<"\\", "f">>
      [] OTHER -> <<c>>

RECURSIVE QuoteBody(_)
QuoteBody(s) ==
    IF s = <<>> THEN <<>> ELSE QuoteChar(Head(s)) \o QuoteBody(Tail(s))

GoQuote(s) == <<"\"">> \o QuoteBody(s) \o <<"\"">>

\* "\n\tat %s:%d (%s) [package: %s]" of Format's long forms.
Location(e) ==
    <<"\n", "\t", "a", "t", " ">> \o e.File \o <<":">> \o Itoa(e.Line)
    \o <<" ", "(">> \o e.Func
    \o <<")", " ", "[", "p", "a", "c", "k", "a", "g", "e", ":", " ">>
    \o e.Package \o <<"]">>

\* Format, lines 118-130: the compact branch.  The case for 'v' with the
\* '+' flag ends in fallthrough, so the default case runs after it.
FormatCompact(h, e, verb, plus) ==
    IF verb = "v" /\ plus
    THEN ToCSV(h, e) \o <<"|">> \o StackTrace(e) \o ToCSV(h, e)
    ELSE ToCSV(h, e)

\* Format, lines 133-152: the long forms.
FormatLong(h, e, verb, plus) ==
    CASE verb = "v" /\ plus -> MetaErrorError(h, e) \o Location(e) \o StackTrace(e)
      [] (verb = "v" /\ ~plus) \/ verb = "s" -> MetaErrorError(h, e) \o Location(e)
      [] verb = "q" -> GoQuote(MetaErrorError(h, e)) \o Location(e)
      [] OTHER -> <<>>

\* What Format(s, verb) writes to s.
Format(h, e, verb, plus) ==
    IF e.asCSV THEN FormatCompact(h, e, verb, plus)
    ELSE FormatLong(h, e, verb, plus)

\* The Format method panics where the ToCSV it calls does.  (Reached through
\* the fmt package, that panic is recovered by fmt, which prints a PANIC
\* marker in place of the text.)
FormatPanics(e) == e.asCSV /\ ToCSVPanics(e)

\* Format calls StackTrace() for %+v in both branches.
FormatCallsStackTrace(e, verb, plus) ==
    verb = "v" /\ plus /\ ~FormatPanics(e)

-----------------------------------------------------------------------------
(* parseFuncName and the predicates it uses.                                *)

Letters ==
    {"a", "b", "c", "d", "e", "f", "g", "h", "i", "j", "k", "l", "m", "n", 
     "o", "p", "q", "r", "s", "t", "u", "v", "w", "x", "y", "z",
     "A", "B", "C", "D", "E", "F", "G", "H", "I", "J", "K", "L", "M", 
     "N", "O", "P", "Q", "R", "S", "T", "U", "V", "W", "X", "Y", "Z"}

\* A character test that lets every byte through.
isAnyByte(c) == TRUE

\* isLetterDigitOrHyphen
isLetterDigitOrHyphen(c) == c \in Letters \/ c \in DigitChars \/ c = "-"

\* One label of a domain, lines 212-222 of isValidDomain.
ValidLabel(part) ==
    /\ Len(part) # 0
    /\ \A i \in 1..Len(part) : isLetterDigitOrHyphen(part[i])
    /\ part[1] # "-"
    /\ part[Len(part)] # "-"

ValidLabels(parts) ==
    Len(parts) >= 2 /\ \A k \in 1..Len(parts) : ValidLabel(parts[k])

isValidDomain(domain) == ValidLabels(Split(domain, <<".">>))

DomainBefore(s, slashPos) ==
    slashPos # -1 /\ isValidDomain(Slice(s, 0, slashPos))

isGoPackageURLPattern(s) == Len(s) >= 4 /\ DomainBefore(s, Index(s, <<"/">>))

FuncWord == <<"f", "u", "n", "c">>

AllDigits(s) == \A i \in 1..Len(s) : s[i] \in DigitChars

isAnonymousFuncName(funcName) ==
    \/ Contains(funcName, <<".">> \o FuncWord)
    \/ /\ HasPrefix(funcName, FuncWord)
       /\ Len(funcName) > 4
       /\ AllDigits(Slice(funcName, 4, Len(funcName)))

\* The seven results of parseFuncName, or the fact that it panicked.
Parsed(pkgPath, qualifier, recvPtr, typeGeneric, funcGeneric, funcName, notice) ==
    [pkgPath |-> pkgPath, qualifier |-> qualifier, recvPtr |-> recvPtr,
     typeGeneric |-> typeGeneric, funcGeneric |-> funcGeneric,
     funcName |-> funcName, notice |-> notice, panicked |-> FALSE]

NoParse == Parsed(<<>>, <<>>, FALSE, <<>>, <<>>, <<>>, <<>>)

ParsePanic == [NoParse EXCEPT !.panicked = TRUE]

AnonymousNotice ==
    <<"a", "n", "o", "n", "y", "m", "o", "u", "s", " ", "f", "u", "n", "c",
      "t", "i", "o", "n">>

QualifierNotice ==
    <<",", "q", "u", "a", "l", "i", "f", "i", "e", "r", " ", "(", "s", "t",
      "r", "u", "c", "t", " ", "o", "r", " ", "p", "k", "g", " ", "l", "e",
      "v", "e", "l", " ", "f", "u", "n", "c", ")", " ">>

CallingNotice ==
    <<"N", "o", "t", "e", "s", ":", " ", "C", "a", "l", "l", "i", "n", "g",
      " ", "f", "u", "n", "c", "t", "i", "o", "n", " ", "o", "n", " ", "p",
      "a", "c", "k", "a", "g", "e", ":", " ">>

\* Lines 153-159: the qualifier and the pointer mark.
ParseQualifier(pkgPath, recvPtrStr, tg, fg, fn, notice) ==
    IF HasPrefix(recvPtrStr, <<"*">>)
    THEN Parsed(pkgPath, Slice(recvPtrStr, 1, Len(recvPtrStr)), TRUE, tg, fg,
                fn, notice)
    ELSE Parsed(pkgPath, recvPtrStr, FALSE, tg, fg, fn, notice)

\* Lines 136-150: a package path with one dot in it that is not a URL.
ParseCalling(pkgPath, recvPtrStr, parts, tg, fg, fn, notice) ==
    IF Len(parts) = 2 /\ ~isGoPackageURLPattern(pkgPath)
    THEN ParseQualifier(TrimSuffix(pkgPath, <<".">> \o parts[2]), parts[2],
                        tg, fg, fn,
                        notice \o CallingNotice \o parts[2] \o <<"\n">>)
    ELSE ParseQualifier(pkgPath, recvPtrStr, tg, fg, fn, notice)

\* Lines 133-135.
ParsePkgDot(pkgPath, recvPtrStr, tg, fg, fn, notice) ==
    IF Contains(pkgPath, <<".">>)
    THEN ParseCalling(pkgPath, recvPtrStr, Split(pkgPath, <<".">>), tg, fg,
                      fn, notice)
    ELSE ParseQualifier(pkgPath, recvPtrStr, tg, fg, fn, notice)

\* Lines 122-126: the separator index the dot is compared with.
RecheckedSep(pkgRecv, sepIdx, dotIdx, tg) ==
    IF dotIdx < sepIdx /\ Contains(tg, <<"/">>)
    THEN LastIndex(pkgRecv, <<"/">>) ELSE sepIdx

\* Lines 116-134: no parentheses around the receiver.
ParseNoParen(pkgRecv, sepIdx, dotIdx, tg, fg, fn, notice) ==
    IF dotIdx < 0 THEN Parsed(pkgRecv, <<>>, FALSE, tg, fg, fn, notice)
    ELSE IF dotIdx < RecheckedSep(pkgRecv, sepIdx, dotIdx, tg)
    THEN Parsed(pkgRecv, <<>>, FALSE, tg, fg, fn, notice)
    ELSE ParsePkgDot(Slice(pkgRecv, 0, dotIdx),
                     Slice(pkgRecv, dotIdx + 1, Len(pkgRecv)), tg, fg, fn,
                     notice)

\* Lines 113-151.
ParseRecv(pkgRecv, sepIdx, hasParen, pkgPath, tg, fg, fn, notice) ==
    IF hasParen THEN ParseQualifier(pkgPath, pkgRecv, tg, fg, fn, notice)
    ELSE ParseNoParen(pkgRecv, sepIdx, LastIndex(pkgRecv, <<".">>), tg, fg,
                      fn, notice)

\* Lines 103-111: the generic arguments of the receiver type.
ParseTypeGenericAt(prg, leftIdx, sepIdx, hasParen, pkgPath, fg, fn, notice) ==
    IF leftIdx < 0 THEN Parsed(pkgPath, <<>>, FALSE, <<>>, fg, fn, notice)
    ELSE ParseRecv(Slice(prg, 0, leftIdx), sepIdx, hasParen, pkgPath,
                   Slice(prg, leftIdx + 1, Len(prg) - 1), fg, fn, notice)

ParseTypeGeneric(prg, sepIdx, hasParen, pkgPath, fg, fn, notice) ==
    IF HasSuffix(prg, <<"]">>)
    THEN ParseTypeGenericAt(prg, LastIndex(prg, <<"[">>), sepIdx, hasParen,
                            pkgPath, fg, fn, notice)
    ELSE ParseRecv(prg, sepIdx, hasParen, pkgPath, <<>>, fg, fn, notice)

\* Lines 86-95: the package path before a parenthesised receiver, split at
\* its dots.
ParenPkgParts(pkgPath, parts, notice) ==
    IF Len(parts) = 2
    THEN [pkgPath |-> TrimSuffix(pkgPath, <<".">> \o parts[2]),
          notice |-> notice \o QualifierNotice \o parts[2] \o <<"\n">>]
    ELSE IF Len(parts) = 1 THEN [pkgPath |-> parts[1], notice |-> notice]
    ELSE [pkgPath |-> pkgPath, notice |-> notice]

\* Lines 82-97.
ParenPkg(pkgPath, notice) ==
    IF /\ Contains(pkgPath, <<"/">>)
       /\ Contains(Slice(pkgPath, LastIndex(pkgPath, <<"/">>) + 1, Len(pkgPath)),
                   <<".">>)
    THEN ParenPkgParts(pkgPath, Split(pkgPath, <<".">>), notice)
    ELSE [pkgPath |-> pkgPath, notice |-> notice]

ParseAfterParen(prg, sepIdx, pn, fg, fn) ==
    ParseTypeGeneric(prg, sepIdx, TRUE, pn.pkgPath, fg, fn, pn.notice)

\* Lines 70-98: the receiver is wrapped in parentheses.  Line 76 reads the
\* byte before the parenthesis, which does not exist when leftIdx is 0.
ParseParenAt(paren, leftIdx, sepIdx, fg, fn, notice) ==
    IF leftIdx < 0 THEN Parsed(<<>>, <<>>, FALSE, <<>>, fg, fn, notice)
    ELSE IF leftIdx - 1 < 0 THEN ParsePanic
    ELSE IF paren[(leftIdx - 1) + 1] # "."
    THEN Parsed(<<>>, <<>>, FALSE, <<>>, fg, fn, notice)
    ELSE ParseAfterParen(Slice(paren, leftIdx + 1, Len(paren) - 1), sepIdx,
                         ParenPkg(Slice(paren, 0, leftIdx - 1), notice),
                         fg, fn)

\* Lines 63-99.
ParseType(paren, sepIdx, fg, fn, notice) ==
    IF HasSuffix(paren, <<")">>)
    THEN ParseParenAt(paren, LastIndex(paren, <<"(">>), sepIdx, fg, fn, notice)
    ELSE ParseTypeGeneric(paren, sepIdx, FALSE, <<>>, fg, fn, notice)

\* Lines 57-59.
TrimFuncAt(funcName, idx) ==
    IF idx # -1 THEN Slice(funcName, 0, idx) ELSE funcName

TrimFunc(funcName) ==
    TrimFuncAt(funcName, LastIndex(funcName, <<".">> \o FuncWord))

\* Lines 50-60: an anonymous function is named after the one around it.
ParseAnonymous(s, funcNameDot, sepIdx, fg) ==
    IF funcNameDot < 0 THEN Parsed(<<>>, <<>>, FALSE, <<>>, fg, s, <<>>)
    ELSE ParseType(Slice(s, 0, funcNameDot), sepIdx, fg,
                   TrimFunc(Slice(s, funcNameDot + 1, Len(s))),
                   AnonymousNotice)

\* Lines 43-61.
ParseFuncNameAt(s, funcNameDot, sepIdx, fg) ==
    IF funcNameDot < 0 THEN Parsed(<<>>, <<>>, FALSE, <<>>, fg, s, <<>>)
    ELSE IF isAnonymousFuncName(Slice(s, funcNameDot + 1, Len(s)))
    THEN ParseAnonymous(s, LastIndex(Slice(s, 0, funcNameDot), <<".">>),
                        sepIdx, fg)
    ELSE ParseType(Slice(s, 0, funcNameDot), sepIdx, fg,
                   Slice(s, funcNameDot + 1, Len(s)), <<>>)

\* Lines 32-40: the generic arguments of the function.
ParseFuncGenericAt(name, leftIdx, sepIdx) ==
    IF leftIdx < 0 THEN NoParse
    ELSE ParseFuncNameAt(Slice(name, 0, leftIdx),
                         LastIndex(Slice(name, 0, leftIdx), <<".">>),
                         sepIdx,
                         Slice(name, leftIdx + 1, Len(name) - 1))

ParseFrom(name, sepIdx) ==
    IF HasSuffix(name, <<"]">>)
    THEN ParseFuncGenericAt(name, LastIndex(name, <<"[">>), sepIdx)
    ELSE ParseFuncNameAt(name, LastIndex(name, <<".">>), sepIdx, <<>>)

parseFuncName(name) == ParseFrom(name, LastIndex(name, <<"/">>))

-----------------------------------------------------------------------------
(* The values the variables of one part of the model hold while another    *)
(* part runs.                                                              *)

NoCall == [fn |-> "none", err |-> NilErr, skip |-> 0, captureStack |-> FALSE,
           asCSV |-> FALSE, stack |-> <<>>, obj |-> 0, verb |-> "",
           plus |-> FALSE, target |-> NilErr, errs |-> <<>>]

NoRet == [kind |-> "none", err |-> NilErr, text |-> <<>>, ok |-> FALSE,
          errs |-> <<>>]

ObjIdle == /\ heap = <<>>
           /\ call = NoCall
           /\ ret = NoRet
           /\ panicked = FALSE
           /\ renders = <<>>

CsvIdle == /\ csvIn = MetaErr(NilErr, <<>>, 0, <<>>, <<>>, <<>>, FALSE)
           /\ csvRec = <<>>
           /\ csvDec = NotMetaError
           /\ csvPc = "idle"

ParseIdle == /\ fullName = <<>>
             /\ parsed = NoParse
             /\ parsePc = "idle"

\* No retry function running.
NoRetry == [fn |-> "none", pc |-> "idle"]

RetryIdle == rt = NoRetry

\* No DebugContext made.
NoDbg == [ctxs |-> <<>>, maps |-> <<>>, procs |-> <<>>, fatal |-> FALSE]

DbgIdle == dbg = NoDbg

\* A nil *MultiError.
NoMulti == [made |-> FALSE, Errors |-> <<>>]

MultiIdle == multi = NoMulti

CapIdle == /\ capAvail = 0
           /\ capLen = 0
           /\ capN = 0
           /\ capTried = <<>>
           /\ capStored = <<>>
           /\ capPc = "idle"

-----------------------------------------------------------------------------
(* The record codec: ToCSV on a MetaError with a non-nil Err, then          *)
(* MetaErrorFromCSV on its result; and MetaErrorFromCSV on arbitrary text.  *)

\* Characters of the fields handed to ToCSV: a plain one, the delimiter, the
\* quote, the two line-break characters and a blank.
CsvAlphabet == {"a", "|", "\"", "\r", "\n", " "}

\* The four string fields of an encoded MetaError hold at most this many
\* characters together.
MaxCsvChars == 3

CsvLines == {-7, 12}

\* Characters of the text handed to MetaErrorFromCSV.
RawAlphabet == {"a", "|", "\"", "\n", "1"}

MaxRawLen == 6

\* Further texts: signs, blanks and carriage returns around a 5-field record.
RawExtra ==
    { <<"|", "|", "-", "1", "|", "|">>,
      <<"|", "|", "+", "1", "|", "|">>,
      <<"|", "|", "-", "|", "|">>,
      <<"|", "|", " ", "1", "|", "|">>,
      <<"|", "|", "1", " ", "|", "|">>,
      <<"|", "|", "1", "2", "|", "|", "\r", "\n">>,
      <<"|", "|", "1", "|", "|", "\r">>,
      <<"\r", "\n", "|", "|", "0", "|", "|">>,
      <<"a", "|", "b", "|", "1", "0", "|", "c", "|", "d", "\n", "x">> }

InitCSV ==
    /\ RetryIdle
    /\ DbgIdle
    /\ MultiIdle
    /\ ObjIdle /\ ParseIdle /\ CapIdle
    /\ csvDec = NotMetaError
    /\ \/ /\ csvPc = "input"
          /\ csvRec = <<>>
          /\ \E m \in StringsUpTo(CsvAlphabet, MaxCsvChars) :
             \E f \in StringsUpTo(CsvAlphabet, MaxCsvChars - Len(m)) :
             \E fn \in StringsUpTo(CsvAlphabet, MaxCsvChars - Len(m) - Len(f)) :
             \E p \in StringsUpTo(CsvAlphabet,
                                  MaxCsvChars - Len(m) - Len(f) - Len(fn)) :
             \E ln \in CsvLines :
                csvIn = MetaErr(BaseErr(m, 1), f, ln, fn, p, <<>>, TRUE)
       \/ /\ csvPc = "raw"
          /\ csvIn = MetaErr(NilErr, <<>>, 0, <<>>, <<>>, <<>>, FALSE)
          /\ csvRec \in StringsUpTo(RawAlphabet, MaxRawLen) \cup RawExtra

\* x.ToCSV()
Encode ==
    /\ csvPc = "input"
    /\ csvRec' = ToCSV(<<>>, csvIn)
    /\ csvPc' = "encoded"
    /\ UNCHANGED <<csvIn, csvDec>>
    /\ UNCHANGED <<objVars, parseVars, capVars, multiVars, retryVars, dbgVars>>

\* MetaErrorFromCSV(x.ToCSV())
DecodeEncoded ==
    /\ csvPc = "encoded"
    /\ csvDec' = MetaErrorFromCSV(csvRec, 2)
    /\ csvPc' = "roundtrip"
    /\ UNCHANGED <<csvIn, csvRec>>
    /\ UNCHANGED <<objVars, parseVars, capVars, multiVars, retryVars, dbgVars>>

\* MetaErrorFromCSV(csvStr) on any text
DecodeRaw ==
    /\ csvPc = "raw"
    /\ csvDec' = MetaErrorFromCSV(csvRec, 2)
    /\ csvPc' = "decoded"
    /\ UNCHANGED <<csvIn, csvRec>>
    /\ UNCHANGED <<objVars, parseVars, capVars, multiVars, retryVars, dbgVars>>

NextCSV == Encode \/ DecodeEncoded \/ DecodeRaw

SpecCSV == InitCSV /\ [][NextCSV]_vars

-----------------------------------------------------------------------------
(* Claims about the record codec.                                          *)

SameContext(x, y) ==
    /\ MetaErrorError(<<>>, y) = MetaErrorError(<<>>, x)
    /\ y.File = x.File
    /\ y.Line = x.Line
    /\ y.Func = x.Func
    /\ y.Package = x.Package

\* C3: record round trip.  For every MetaError x with a non-nil Err,
\* MetaErrorFromCSV(x.ToCSV()) succeeds and the decoded object's Error(),
\* File, Line, Func and Package equal x's.
C3_RoundTrip ==
    csvPc = "roundtrip" => csvDec.ok /\ SameContext(csvIn, csvDec.me)

\* An optional sign followed by one or more decimal digits.
IsDecimalInteger(s) ==
    /\ s # <<>>
    /\ \A i \in 2..Len(s) : s[i] \in DigitChars
    /\ \/ Head(s) \in DigitChars
       \/ Head(s) \in {"+", "-"} /\ Len(s) >= 2

DecodesToFive(r) == ~r.err /\ Len(r.fields) = 5

RejectsUnlessWellFormed(r, dec) ==
    IF DecodesToFive(r) /\ IsDecimalInteger(r.fields[3])
    THEN dec.ok
    ELSE dec = NotMetaError

RECURSIVE SplitTop(_, _, _, _)
SplitTop(t, inQuote, cur, acc) ==
    IF t = <<>> THEN Append(acc, cur)
    ELSE IF Head(t) = Quote
    THEN SplitTop(Tail(t), ~inQuote, Append(cur, Quote), acc)
    ELSE IF Head(t) = Comma /\ ~inQuote
    THEN SplitTop(Tail(t), inQuote, <<>>, Append(acc, cur))
    ELSE SplitTop(Tail(t), inQuote, Append(cur, Head(t)), acc)

TopFields(t) == SplitTop(t, FALSE, <<>>, <<>>)

HasLineBreak(t) == \E i \in 1..Len(t) : t[i] \in {"\n", "\r"}

RECURSIVE Undouble(_)
Undouble(t) ==
    IF t = <<>> THEN <<>>
    ELSE IF Len(t) >= 2 /\ t[1] = Quote /\ t[2] = Quote
    THEN <<Quote>> \o Undouble(Tail(Tail(t)))
    ELSE <<Head(t)>> \o Undouble(Tail(t))

\* The content of one field as written: without the enclosing quotes and
\* with doubled quotes single.
Unquoted(f) ==
    IF Len(f) >= 2 /\ Head(f) = Quote /\ f[Len(f)] = Quote
    THEN Undouble(Slice(f, 1, Len(f) - 1))
    ELSE f

FiveFieldsOf(fs, x) ==
    /\ Len(fs) = 5
    /\ Unquoted(fs[1]) = MetaErrorError(<<>>, x)
    /\ Unquoted(fs[2]) = x.File
    /\ fs[3] = Itoa(x.Line)
    /\ Unquoted(fs[4]) = x.Func
    /\ Unquoted(fs[5]) = x.Package

\* C5: for a MetaError with a non-nil Err, ToCSV() returns a single line of
\* text, with no line break inside it, of exactly 5 fields in the order
\* message, file, decimal line, func, package, joined by '|', a '|' or a
\* quote of a field being quoted so that it moves no field boundary.
C5_SingleLine ==
    csvPc \in {"encoded", "roundtrip"} =>
        ~HasLineBreak(csvRec) /\ FiveFieldsOf(TopFields(csvRec), csvIn)

-----------------------------------------------------------------------------
(* The constructors.  The heap holds the MetaError objects allocated so     *)
(* far; a *MetaError is MetaRef of its index.  call and ret are the last    *)
(* call made and what it returned.                                          *)

MaxObjs == 2

SkipVals == {1, 7}

BaseErrs == { BaseErr(<<"e">>, 1) }

\* The error values a caller can pass.
Errs(h) == {NilErr} \cup BaseErrs \cup { MetaRef(i) : i \in 1..Len(h) }

ReturnPtr(i) == [NoRet EXCEPT !.kind = "ptr", !.err = MetaRef(i)]

\* Allocate e as the next object and return the pointer to it.
Allocate(e) ==
    /\ heap' = Append(heap, e)
    /\ renders' = Append(renders, 0)
    /\ ret' = ReturnPtr(Len(heap) + 1)

\* NewMetaError(err), called from the call site on top of stack.
CallNewMetaError(err, stack) ==
    /\ ~IsMetaError(err) => Len(heap) < MaxObjs
    /\ call' = [NoCall EXCEPT !.fn = "NewMetaError", !.err = err,
                              !.stack = stack]
    /\ IF IsMetaError(err)
       THEN /\ ret' = [NoRet EXCEPT !.kind = "ptr", !.err = err]
            /\ UNCHANGED <<heap, renders>>
       ELSE Allocate(NewMetaErrorOptions(err, 2, TRUE, TRUE,
                                         <<FrameOptions, FrameNew>> \o stack))
    /\ panicked' = FALSE
    /\ UNCHANGED <<csvVars, multiVars, parseVars, capVars, retryVars, dbgVars>>

\* NewMetaErrorOptions(err, skip, captureStack, asCSV), called directly.
CallNewMetaErrorOptions(err, skip, captureStack, asCSV, stack) ==
    /\ Len(heap) < MaxObjs
    /\ call' = [NoCall EXCEPT !.fn = "NewMetaErrorOptions", !.err = err,
                              !.skip = skip, !.captureStack = captureStack,
                              !.asCSV = asCSV, !.stack = stack]
    /\ Allocate(NewMetaErrorOptions(err, skip, captureStack, asCSV,
                                    <<FrameOptions>> \o stack))
    /\ panicked' = FALSE
    /\ UNCHANGED <<csvVars, multiVars, parseVars, capVars, retryVars, dbgVars>>

Init ==
    /\ RetryIdle
    /\ DbgIdle
    /\ MultiIdle
    /\ ObjIdle
    /\ CsvIdle
    /\ ParseIdle
    /\ CapIdle

Next ==
    \/ \E err \in Errs(heap), stack \in UserStacks :
          CallNewMetaError(err, stack)
    \/ \E err \in Errs(heap), skip \in SkipVals, captureStack \in BOOLEAN,
          asCSV \in BOOLEAN, stack \in UserStacks :
          CallNewMetaErrorOptions(err, skip, captureStack, asCSV, stack)

Spec == Init /\ [][Next]_vars

\* C1: NewMetaError is idempotent on a value that is already a *MetaError:
\* called again on the pointer an earlier NewMetaError returned, it returns
\* that same pointer and allocates nothing, so no nested MetaError appears.
C1_Idempotent ==
    [][(/\ call.fn = "NewMetaError"
        /\ call'.fn = "NewMetaError"
        /\ call'.err = ret.err)
       => (ret' = ret /\ heap' = heap)]_vars

\* C1 witness: NewMetaError was handed a *MetaError and returned it.
C1_Witness ==
    /\ call.fn = "NewMetaError"
    /\ IsMetaError(call.err)
    /\ ret.err = call.err
    /\ Len(heap) >= 1

\* C2: NewMetaErrorOptions returns err unchanged when err is already a
\* *MetaError, so that no MetaError ever wraps another one.
C2_OptionsKeepsMetaError ==
    /\ (call.fn = "NewMetaErrorOptions" /\ IsMetaError(call.err))
          => ret.err = call.err
    /\ \A o \in 1..Len(heap) : ~IsMetaError(heap[o].Err)

-----------------------------------------------------------------------------
(* The methods, called in any order on objects the constructors built.     *)
(* renders[o] counts the assignments StackTrace() made to the cache field   *)
(* of object o.                                                             *)

MaxRenders == 2

Verbs == {"v", "s", "q", "d"}

\* The objects either constructor builds for err at a call site.
Constructed(err, stack) ==
    { NewMetaErrorOptions(err, 2, TRUE, TRUE, <<FrameOptions, FrameNew>> \o stack) }
    \cup { NewMetaErrorOptions(err, skip, captureStack, asCSV,
                               <<FrameOptions>> \o stack) :
             skip \in SkipVals, captureStack \in BOOLEAN, asCSV \in BOOLEAN }

\* One object, or one object and a second that wraps it.
InitOps ==
    /\ RetryIdle
    /\ DbgIdle
    /\ MultiIdle
    /\ \E err \in {NilErr} \cup BaseErrs, stack \in UserStacks :
          \E a \in Constructed(err, stack) :
             \/ heap = <<a>>
             \/ \E b \in Constructed(MetaRef(1), stack) : heap = <<a, b>>
    /\ renders = [o \in 1..Len(heap) |-> 0]
    /\ call = NoCall
    /\ ret = NoRet
    /\ panicked = FALSE
    /\ CsvIdle
    /\ ParseIdle
    /\ CapIdle

ReturnText(t) == [NoRet EXCEPT !.kind = "text", !.text = t]

\* The state after StackTrace() ran on object o.
RunStackTrace(o) ==
    /\ heap' = [heap EXCEPT ![o] = AfterStackTrace(heap[o])]
    /\ renders' = [renders EXCEPT ![o] = IF HasStack(heap[o]) THEN @ + 1 ELSE @]

CallError(o) ==
    /\ call' = [NoCall EXCEPT !.fn = "Error", !.obj = o]
    /\ ret' = ReturnText(MetaErrorError(heap, heap[o]))
    /\ panicked' = FALSE
    /\ UNCHANGED <<heap, renders, csvVars, multiVars, parseVars, capVars, retryVars, dbgVars>>

CallToCSV(o) ==
    /\ call' = [NoCall EXCEPT !.fn = "ToCSV", !.obj = o]
    /\ panicked' = ToCSVPanics(heap[o])
    /\ ret' = IF ToCSVPanics(heap[o]) THEN NoRet
              ELSE ReturnText(ToCSV(heap, heap[o]))
    /\ UNCHANGED <<heap, renders, csvVars, multiVars, parseVars, capVars, retryVars, dbgVars>>

CallStackTrace(o) ==
    /\ HasStack(heap[o]) => renders[o] < MaxRenders
    /\ call' = [NoCall EXCEPT !.fn = "StackTrace", !.obj = o]
    /\ ret' = ReturnText(StackTrace(heap[o]))
    /\ RunStackTrace(o)
    /\ panicked' = FALSE
    /\ UNCHANGED <<csvVars, multiVars, parseVars, capVars, retryVars, dbgVars>>

CallFormat(o, verb, plus) ==
    /\ (FormatCallsStackTrace(heap[o], verb, plus) /\ HasStack(heap[o]))
          => renders[o] < MaxRenders
    /\ call' = [NoCall EXCEPT !.fn = "Format", !.obj = o, !.verb = verb,
                              !.plus = plus]
    /\ panicked' = FormatPanics(heap[o])
    /\ ret' = IF FormatPanics(heap[o]) THEN NoRet
              ELSE ReturnText(Format(heap, heap[o], verb, plus))
    /\ IF FormatCallsStackTrace(heap[o], verb, plus) THEN RunStackTrace(o)
       ELSE UNCHANGED <<heap, renders>>
    /\ UNCHANGED <<csvVars, multiVars, parseVars, capVars, retryVars, dbgVars>>

CallUnwrap(o) ==
    /\ call' = [NoCall EXCEPT !.fn = "Unwrap", !.obj = o]
    /\ ret' = [NoRet EXCEPT !.kind = "err", !.err = Unwrap(heap[o])]
    /\ panicked' = FALSE
    /\ UNCHANGED <<heap, renders, csvVars, multiVars, parseVars, capVars, retryVars, dbgVars>>

CallIs(o, target) ==
    /\ call' = [NoCall EXCEPT !.fn = "Is", !.obj = o, !.err = target]
    /\ ret' = [NoRet EXCEPT !.kind = "bool", !.ok = Is(heap, heap[o], target)]
    /\ panicked' = FALSE
    /\ UNCHANGED <<heap, renders, csvVars, multiVars, parseVars, capVars, retryVars, dbgVars>>

CallAs(o, kind) ==
    /\ call' = [NoCall EXCEPT !.fn = "As", !.obj = o, !.verb = kind]
    /\ ret' = [NoRet EXCEPT !.kind = "bool",
                            !.err = As(heap, heap[o], kind),
                            !.ok = As(heap, heap[o], kind) # NilErr]
    /\ panicked' = FALSE
    /\ UNCHANGED <<heap, renders, csvVars, multiVars, parseVars, capVars, retryVars, dbgVars>>

\* The targets Is is asked about: the errors at hand and one unrelated one.
Targets(h) == Errs(h) \cup { BaseErr(<<"e">>, 2) }

NextOps ==
    \/ \E o \in 1..Len(heap) : CallError(o)
    \/ \E o \in 1..Len(heap) : CallToCSV(o)
    \/ \E o \in 1..Len(heap) : CallStackTrace(o)
    \/ \E o \in 1..Len(heap), verb \in Verbs, plus \in BOOLEAN :
          CallFormat(o, verb, plus)
    \/ \E o \in 1..Len(heap) : CallUnwrap(o)
    \/ \E o \in 1..Len(heap), target \in Targets(heap) : CallIs(o, target)
    \/ \E o \in 1..Len(heap), kind \in {"meta", "base"} : CallAs(o, kind)

SpecOps == InitOps /\ [][NextOps]_vars

\* C6: for an object in compact mode, Format writes exactly the string
\* ToCSV() returns, once, whatever the verb and the flags.
C6_CompactFormat ==
    (/\ call.fn = "Format"
     /\ heap[call.obj].asCSV
     /\ ~panicked)
       => ret.text = ToCSV(heap, heap[call.obj])

\* C7: no operation on a MetaError the constructors built panics, an
\* object built from a nil error included.
C7_NoPanic == ~panicked

\* C9: StackTrace() is memoized: the cache field of an object is written at
\* most once, however often the trace is asked for.
C9_Memoized == \A o \in 1..Len(heap) : renders[o] <= 1

-----------------------------------------------------------------------------
(* The stack capture of NewMetaErrorOptions, lines 93-104, one statement    *)
(* at a time.  capAvail is the number of frames runtime.Callers can report  *)
(* from the skip offset, capLen is len(pcs), capN the last count returned,  *)
(* capTried the buffer lengths handed to runtime.Callers with the count     *)
(* each call returned, capStored the indices of the frames stored.          *)

MaxFrames == 1100

InitStack ==
    /\ RetryIdle
    /\ DbgIdle
    /\ MultiIdle
    /\ capAvail \in 0..MaxFrames
    /\ capLen = 0
    /\ capN = 0
    /\ capTried = <<>>
    /\ capStored = <<>>
    /\ capPc = "alloc"
    /\ ObjIdle
    /\ CsvIdle
    /\ ParseIdle

Tried(len, n) == [len |-> len, n |-> n]

\* Lines 94-95: pcs := make([]uintptr, initialStackSize); n := Callers(...)
CapAlloc ==
    /\ capPc = "alloc"
    /\ capLen' = initialStackSize
    /\ capN' = CallersCount(capAvail, initialStackSize)
    /\ capTried' = <<Tried(initialStackSize, CallersCount(capAvail, initialStackSize))>>
    /\ capPc' = "loop"
    /\ UNCHANGED <<capAvail, capStored, objVars, csvVars, multiVars, parseVars, retryVars, dbgVars>>

\* Lines 96-99: the buffer was full, so double it and ask again.
CapGrow ==
    /\ capPc = "loop"
    /\ GrowAgain(capN, capLen)
    /\ capLen' = capLen * 2
    /\ capN' = CallersCount(capAvail, capLen * 2)
    /\ capTried' = Append(capTried, Tried(capLen * 2, CallersCount(capAvail, capLen * 2)))
    /\ UNCHANGED <<capAvail, capStored, capPc, objVars, csvVars, multiVars, parseVars, retryVars, dbgVars>>

\* Line 96: the loop condition is false.
CapExit ==
    /\ capPc = "loop"
    /\ ~GrowAgain(capN, capLen)
    /\ capPc' = "trim"
    /\ UNCHANGED <<capAvail, capLen, capN, capTried, capStored, objVars,
                   csvVars, multiVars, parseVars, retryVars, dbgVars>>

\* Lines 100-102: if len(pcs) > maxStackDepth { pcs = pcs[:maxStackDepth] }
CapTrim ==
    /\ capPc = "trim"
    /\ capLen' = IF capLen > maxStackDepth THEN maxStackDepth ELSE capLen
    /\ capPc' = "store"
    /\ UNCHANGED <<capAvail, capN, capTried, capStored, objVars, csvVars, multiVars,
                   parseVars, retryVars, dbgVars>>

\* Line 103: metaErr.stackTrace = pcs[:n]
CapStore ==
    /\ capPc = "store"
    /\ capN <= capLen
    /\ capStored' = [i \in 1..capN |-> i]
    /\ capPc' = "done"
    /\ UNCHANGED <<capAvail, capLen, capN, capTried, objVars, csvVars, multiVars,
                   parseVars, retryVars, dbgVars>>

NextStack ==
    \/ CapAlloc
    \/ CapGrow
    \/ CapExit
    \/ CapTrim
    \/ CapStore

SpecStack == InitStack /\ [][NextStack]_vars

\* C10: the capture is bounded.  The first buffer has 64 entries, a buffer
\* is replaced by one twice as long only when it came back full, no buffer
\* longer than 1024 is ever tried (so at most five are), the loop always
\* proceeds to the store, and what is stored is every available frame up to
\* 1024 of them: a stack shallower than 1024 is stored whole.
C10_BoundedCapture ==
    /\ capTried # <<>> => capTried[1].len = 64
    /\ \A i \in 1..Len(capTried) :
          /\ capTried[i].len <= 1024
          /\ capTried[i].n = Min(capAvail, capTried[i].len)
          /\ i > 1 => /\ capTried[i].len = 2 * capTried[i - 1].len
                      /\ capTried[i - 1].n = capTried[i - 1].len
    /\ Len(capTried) <= 5
    /\ capPc # "done" => ENABLED NextStack
    /\ capPc = "done" =>
          /\ Len(capStored) <= 1024
          /\ Len(capStored) = Min(capAvail, 1024)
          /\ capAvail < 1024 => Len(capStored) = capAvail

\* C10 witness: a stack deeper than the cap went through all five buffer
\* lengths and 1024 frames of it were stored.
C10_Witness ==
    /\ capPc = "done"
    /\ capAvail > 1024
    /\ Len(capTried) = 5
    /\ Len(capStored) = 1024

-----------------------------------------------------------------------------
(* parseFuncName applied to a function name.                                *)

NameAlphabet == {"a", ".", "/", "(", ")", "[", "]", "*"}

MaxNameLen == 4

\* The shapes listed above parseFuncName, and a method whose receiver is
\* parenthesised with no package in front: "(T).M".
NameExamples ==
    { <<"a", "/", "b", "/", "c", ".", "A">>,
      <<"a", "/", "b", "/", "c", ".", "A", ".", "f", "u", "n", "c", "1">>,
      <<"a", "/", "b", "/", "c", ".", "(", "*", "C", ")", ".", "X">>,
      <<"a", "/", "b", "/", "c", ".", "C", ".", "Y">>,
      <<"a", "/", "b", "/", "c", ".", "Z", "[", "]", ".", "X">>,
      <<"a", "/", "b", "/", "c", ".", "X", "[", "]">>,
      <<"(", "T", ")", ".", "M">> }

\* Package paths of the shapes parseFuncName is handed: no slash, slashes,
\* a domain in front, a dot inside the final segment.
PkgPaths ==
    { <<"f", "m", "t">>,
      <<"a", "/", "b">>,
      <<"g", "i", "t", "h", "u", "b", ".", "c", "o", "m", "/", "x", "/", "y">>,
      <<"g", "o", "p", "k", "g", ".", "i", "n", "/", "y", "a", "m", "l", ".", "v", "2">>,
      <<"a", "/", "b", ".", "1">> }

\* Generic-argument texts; the empty one stands for "no bracketed list".
GenericArgs ==
    { <<>>,
      <<"i", "n", "t">>,
      <<"[", "]", "i", "n", "t">>,
      <<"a", "/", "b", ".", "C">> }

Bracketed(args) == IF args = <<>> THEN <<>> ELSE <<"[">> \o args \o <<"]">>

\* "P.F" and "P.F[B]": a package-level function.
ReceiverFreeName(P, F, B) == P \o <<".">> \o F \o Bracketed(B)

\* "P.(*T[A]).M[B]": a method on a pointer receiver.
PointerReceiverName(P, T, A, M, B) ==
    P \o <<".", "(", "*">> \o T \o Bracketed(A) \o <<")", ".">> \o M
      \o Bracketed(B)

\* "P.Outer.Inner.funcN": a closure inside Inner.
ClosureName(P, outer, inner, N) ==
    P \o <<".">> \o outer \o <<".">> \o inner \o <<".", "f", "u", "n", "c">> \o N

FuncF == <<"F">>
RecvT == <<"T">>
MethodM == <<"M">>
OuterName == <<"O", "u", "t", "e", "r">>
InnerName == <<"I", "n", "n", "e", "r">>
ClosureNumbers == {<<"1">>, <<"1", "2">>}

\* The two names of the "pkg path with dot" case.
DottedShort == <<"a", "/", "b", ".", "1", ".", "(", "*", "F", "i", "l", "e", ")", ".", "R", "e", "a", "d">>
DottedLong == <<"g", "i", "t", "h", "u", "b", ".", "c", "o", "m", "/", "x", "h", "d", "2", "0", "1", "5", "/", "x", "g", "o", ".", "1", ".", "(", "*", "F", "i", "l", "e", ")", ".", "R", "e", "a", "d">>

ShapedNames ==
    {ReceiverFreeName(P, FuncF, B) : P \in PkgPaths, B \in GenericArgs}
    \cup {PointerReceiverName(P, RecvT, A, MethodM, B) :
              P \in PkgPaths, A \in GenericArgs, B \in GenericArgs}
    \cup {ClosureName(P, OuterName, InnerName, N) :
              P \in PkgPaths, N \in ClosureNumbers}
    \cup {DottedShort, DottedLong}

InitParse ==
    /\ RetryIdle
    /\ DbgIdle
    /\ MultiIdle
    /\ fullName \in StringsUpTo(NameAlphabet, MaxNameLen) \cup NameExamples
                    \cup ShapedNames
    /\ parsed = NoParse
    /\ parsePc = "input"
    /\ ObjIdle
    /\ CsvIdle
    /\ CapIdle

CallParseFuncName ==
    /\ parsePc = "input"
    /\ parsed' = parseFuncName(fullName)
    /\ parsePc' = "done"
    /\ UNCHANGED <<fullName, objVars, csvVars, multiVars, capVars, retryVars, dbgVars>>

NextParse == CallParseFuncName

SpecParse == InitParse /\ [][NextParse]_vars

\* C8: parseFuncName is total: it returns for every input string, the
\* form "(T).M" included, and never panics.
C8_Total == parsePc = "done" => ~parsed.panicked

-----------------------------------------------------------------------------
(* The recorded call site and the captured stack.                           *)

\* Frame f is the call site object e records: the frame File, Line, Func
\* and Package were taken from.
IsCallSiteOf(f, e) ==
    /\ Base(f.file) = e.File
    /\ f.line = e.Line
    /\ FuncOf(f.fn, LastIndex(f.fn, <<".">>)) = e.Func
    /\ PackageOf(f.fn, LastIndex(f.fn, <<".">>)) = e.Package

\* C11: when the stack was captured, it starts at the frame at the skip
\* depth, the frame that supplied File, Line, Func and Package: the first
\* frame StackTrace() renders is the recorded call site.
C11_TraceStartsAtCallSite ==
    (call.fn = "StackTrace" /\ ret.text # <<>>) =>
        /\ IsCallSiteOf(heap[call.obj].stackTrace[1], heap[call.obj])
        /\ HasPrefix(ret.text, RenderFrame(heap[call.obj].stackTrace[1]))

\* The function and the package the closure FrameClosure is defined in.
ClosureOuter == <<"G">>

ClosurePackage == <<"x", "/", "m">>

\* C14: NewMetaError called from inside an anonymous closure defined in
\* function F of package P records Func = F, not the closure's label, and
\* Package = P with no function name appended.
C14_ClosureNamesOuter ==
    (/\ call.fn = "NewMetaError"
     /\ ~IsMetaError(call.err)
     /\ Head(call.stack) = FrameClosure)
       => /\ heap[ret.err.id].Func = ClosureOuter
          /\ heap[ret.err.id].Package = ClosurePackage

-----------------------------------------------------------------------------
(* Chain walking: errors.Is, errors.As, errors.Unwrap and RootCause on the  *)
(* errors at hand, the pointers NewMetaError returned among them.  While    *)
(* RootCause runs, ret holds its loop variable err under the kind           *)
(* "running".                                                               *)

\* The errors a caller can pass: nil, a base error, wrappers around it, and
\* the MetaErrors built so far.
ChainErrs(h) ==
    {NilErr, WrappedBase} \cup { WrapErr(k) : k \in 1..MaxWraps }
    \cup { MetaRef(i) : i \in 1..Len(h) }

\* The chain does not depend on the call site: one stack serves.
ChainStack == <<FrameG, FrameMain>>

\* The dynamic types errors.As is asked for.
AsKinds == {"meta", "base", "wrap"}

CallErrorsIs(err, target) ==
    /\ ret.kind # "running"
    /\ call' = [NoCall EXCEPT !.fn = "errors.Is", !.err = err,
                              !.target = target]
    /\ ret' = [NoRet EXCEPT !.kind = "bool", !.ok = ErrorsIs(heap, err, target)]
    /\ panicked' = FALSE
    /\ UNCHANGED <<heap, renders, csvVars, multiVars, parseVars, capVars, retryVars, dbgVars>>

CallErrorsAs(err, kind) ==
    /\ ret.kind # "running"
    /\ call' = [NoCall EXCEPT !.fn = "errors.As", !.err = err, !.verb = kind]
    /\ ret' = [NoRet EXCEPT !.kind = "bool",
                            !.err = ErrorsAs(heap, err, kind),
                            !.ok = ErrorsAs(heap, err, kind) # NilErr]
    /\ panicked' = FALSE
    /\ UNCHANGED <<heap, renders, csvVars, multiVars, parseVars, capVars, retryVars, dbgVars>>

CallErrorsUnwrap(err) ==
    /\ ret.kind # "running"
    /\ call' = [NoCall EXCEPT !.fn = "errors.Unwrap", !.err = err]
    /\ ret' = [NoRet EXCEPT !.kind = "err", !.err = ErrorsUnwrap(heap, err)]
    /\ panicked' = FALSE
    /\ UNCHANGED <<heap, renders, csvVars, multiVars, parseVars, capVars, retryVars, dbgVars>>

\* RootCause(err), line 190: the loop is entered for a non-nil err.
CallRootCause(err) ==
    /\ ret.kind # "running"
    /\ call' = [NoCall EXCEPT !.fn = "RootCause", !.err = err]
    /\ ret' = [NoRet EXCEPT !.kind = IF err = NilErr THEN "err" ELSE "running",
                            !.err = err]
    /\ panicked' = FALSE
    /\ UNCHANGED <<heap, renders, csvVars, multiVars, parseVars, capVars, retryVars, dbgVars>>

\* RootCause, lines 191-195: one iteration of the loop.
RootCauseStep ==
    /\ ret.kind = "running"
    /\ ret' = IF IsRoot(ErrorsUnwrap(heap, ret.err))
              THEN [ret EXCEPT !.kind = "err"]
              ELSE [ret EXCEPT !.err = ErrorsUnwrap(heap, ret.err)]
    /\ UNCHANGED <<heap, call, panicked, renders, csvVars, multiVars, parseVars, capVars, retryVars, dbgVars>>

NextChain ==
    \/ /\ ret.kind # "running"
       /\ \E err \in ChainErrs(heap) : CallNewMetaError(err, ChainStack)
    \/ \E err \in ChainErrs(heap), target \in ChainErrs(heap) \cup {BaseErr(<<"e">>, 2)} :
          CallErrorsIs(err, target)
    \/ \E err \in ChainErrs(heap), kind \in AsKinds : CallErrorsAs(err, kind)
    \/ \E err \in ChainErrs(heap) : CallErrorsUnwrap(err)
    \/ \E err \in ChainErrs(heap) : CallRootCause(err)
    \/ RootCauseStep

SpecChain == Init /\ [][NextChain]_vars

\* RootCause's loop is not held up for ever.
SpecChainFair == SpecChain /\ WF_vars(RootCauseStep)

\* The Unwrap chain of err: err, what errors.Unwrap gives for it, and so on.
RECURSIVE ChainOf(_, _)
ChainOf(h, err) ==
    IF err = NilErr THEN <<>> ELSE <<err>> \o ChainOf(h, ErrorsUnwrap(h, err))

InChain(h, err, t) == \E i \in 1..Len(ChainOf(h, err)) : ChainOf(h, err)[i] = t

\* The step from NewMetaError(e) returning m to the call named fn on m.
OnNewMetaError(fn) ==
    /\ call.fn = "NewMetaError"
    /\ call'.fn = fn
    /\ call'.err = ret.err

LastOf(chain) == chain[Len(chain)]

\* C13: RootCause(err) returns nil for a nil err; for a non-nil err it
\* terminates and returns the last error of err's Unwrap chain, the one
\* whose Unwrap yields nil.
C13_RootCause ==
    /\ [](call.fn = "RootCause" /\ ret.kind = "err" =>
             IF call.err = NilErr THEN ret.err = NilErr
             ELSE /\ ret.err = LastOf(ChainOf(heap, call.err))
                  /\ ErrorsUnwrap(heap, ret.err) = NilErr)
    /\ (ret.kind = "running") ~> (call.fn = "RootCause" /\ ret.kind = "err")

\* C13 witness: RootCause went from a MetaError through a wrapper to the
\* base error.
C13_Witness ==
    /\ call.fn = "RootCause"
    /\ IsMetaError(call.err)
    /\ heap[call.err.id].Err.kind = "wrap"
    /\ ret.kind = "err"
    /\ ret.err = WrappedBase

-----------------------------------------------------------------------------
(* parseFuncName on the shapes of Go symbol names.                          *)

\* C15: for every receiver-free identifier P.F or P.F[B], P any package
\* path (with or without slashes, with or without dots in its segments),
\* parseFuncName yields package path P, an empty qualifier, no pointer
\* receiver and function name F.
C15_ReceiverFree ==
    \A P \in PkgPaths, B \in GenericArgs :
        (parsePc = "done" /\ fullName = ReceiverFreeName(P, FuncF, B))
        => /\ parsed.pkgPath = P
           /\ parsed.qualifier = <<>>
           /\ ~parsed.recvPtr
           /\ parsed.funcName = FuncF

\* C16: for every pointer-receiver identifier P.(*T[A]).M[B], the bracketed
\* parts optional and A, B arbitrary generic-argument texts (brackets, dots
\* and slashes included), parseFuncName yields package path P, qualifier T,
\* a pointer receiver, type generic A, function generic B and name M.
C16_PointerReceiver ==
    \A P \in PkgPaths, A \in GenericArgs, B \in GenericArgs :
        (parsePc = "done"
         /\ fullName = PointerReceiverName(P, RecvT, A, MethodM, B))
        => /\ parsed.pkgPath = P
           /\ parsed.qualifier = RecvT
           /\ parsed.recvPtr
           /\ parsed.typeGeneric = A
           /\ parsed.funcGeneric = B
           /\ parsed.funcName = MethodM

\* C17: for "a/b.1.(*File).Read" and "github.com/xhd2015/xgo.1.(*File).Read"
\* parseFuncName keeps the dot of the final path segment: the package path
\* is the whole text before ".(", the qualifier is File, the receiver is a
\* pointer, the name is Read and the notice is empty.
C17_DotRetained ==
    (parsePc = "done" /\ fullName \in {DottedShort, DottedLong})
    => /\ parsed.pkgPath = Slice(fullName, 0, Index(fullName, <<".", "(">>))
       /\ parsed.qualifier = <<"F", "i", "l", "e">>
       /\ parsed.recvPtr
       /\ parsed.funcName = <<"R", "e", "a", "d">>
       /\ parsed.notice = <<>>

\* C18: for every closure identifier P.Outer.Inner.funcN, N one or more
\* digits and P any package path, parseFuncName strips the closure suffix:
\* the name is Inner, the qualifier Outer, the package path P, and the
\* notice contains the anonymous-function marker.
C18_Closure ==
    \A P \in PkgPaths, N \in ClosureNumbers :
        (parsePc = "done"
         /\ fullName = ClosureName(P, OuterName, InnerName, N))
        => /\ parsed.funcName = InnerName
           /\ parsed.qualifier = OuterName
           /\ parsed.pkgPath = P
           /\ Contains(parsed.notice, AnonymousNotice)

-----------------------------------------------------------------------------
(* isGoPackageURLPattern applied to a string.                               *)

\* A letter, a digit, the hyphen, the two separators, and one byte that is
\* none of them.
URLAlphabet == {"a", "1", "-", ".", "/", "_"}

MaxURLLen == 5

URLTrue == { <<"g", "i", "t", "h", "u", "b", ".", "c", "o", "m", "/", "x", "/", "y">>,
             <<"g", "i", "t", "h", "u", "b", ".", "c", "o", "m", "/", "/">> }

URLFalse == { <<"n", "o", "t", "a", "d", "o", "m", "a", "i", "n", "/">>,
              <<"a", ".", "b">>,
              <<"g", "i", "t", "h", "u", "b", ".", "c", "o", "m">>,
              <<"/", "g", "i", "t", "h", "u", "b", ".", "c", "o", "m", "/">> }

InitURL ==
    /\ RetryIdle
    /\ DbgIdle
    /\ MultiIdle
    /\ fullName \in StringsUpTo(URLAlphabet, MaxURLLen) \cup URLTrue \cup URLFalse
    /\ parsed = NoParse
    /\ parsePc = "input"
    /\ ObjIdle
    /\ CsvIdle
    /\ CapIdle

CallIsGoPackageURLPattern ==
    /\ parsePc = "input"
    /\ call' = [NoCall EXCEPT !.fn = "isGoPackageURLPattern"]
    /\ ret' = [NoRet EXCEPT !.kind = "bool",
                            !.ok = isGoPackageURLPattern(fullName)]
    /\ parsePc' = "done"
    /\ UNCHANGED <<heap, panicked, renders, fullName, parsed, csvVars, multiVars, capVars, retryVars, dbgVars>>

NextURL == CallIsGoPackageURLPattern

SpecURL == InitURL /\ [][NextURL]_vars

\* d reads as a domain: two or more dot-separated labels, none empty, made
\* of ASCII letters, digits and hyphens, none starting or ending with a
\* hyphen.  Stated on the positions of d.
ReadsAsDomain(d) ==
    /\ \E i \in 1..Len(d) : d[i] = "."
    /\ \A i \in 1..Len(d) : d[i] \in Letters \cup DigitChars \cup {"-", "."}
    /\ d[1] \notin {".", "-"}
    /\ d[Len(d)] \notin {".", "-"}
    /\ \A i \in 1..(Len(d) - 1) :
          /\ ~(d[i] = "." /\ d[i + 1] = ".")
          /\ ~(d[i] = "-" /\ d[i + 1] = ".")
          /\ ~(d[i] = "." /\ d[i + 1] = "-")

\* C19: isGoPackageURLPattern(s) is true if and only if s has at least 4
\* characters, contains a '/', and the text before its first '/' is a valid
\* domain; so it is true of "github.com/x/y" and "github.com//" and false
\* of "notadomain/", "a.b", "github.com" and "/github.com/".
C19_URLPattern ==
    (parsePc = "done" /\ call.fn = "isGoPackageURLPattern")
    => /\ ret.ok <=>
            /\ Len(fullName) >= 4
            /\ \E k \in 1..Len(fullName) :
                  /\ fullName[k] = "/"
                  /\ \A j \in 1..(k - 1) : fullName[j] # "/"
                  /\ ReadsAsDomain(SubSeq(fullName, 1, k - 1))
       /\ fullName \in URLTrue => ret.ok
       /\ fullName \in URLFalse => ~ret.ok

\* C19 witness: a generated string was accepted, its domain followed by a
\* '/' and more text.
C19_Witness ==
    /\ parsePc = "done"
    /\ call.fn = "isGoPackageURLPattern"
    /\ ret.ok
    /\ Len(fullName) <= MaxURLLen
    /\ fullName[Len(fullName)] # "/"

-----------------------------------------------------------------------------
(* MultiError: NewMultiError, AppendError, Append and Error.                *)

separator == <<";", " ">>

\* NewMultiError: every argument is appended, a nil one too (lines 280-282).
NewMultiError(errs) == [made |-> TRUE, Errors |-> errs]

\* (*MultiError).Append: a nil err and a nil receiver change nothing.
MultiAppend(m, err) ==
    IF err # NilErr /\ m.made THEN [m EXCEPT !.Errors = Append(@, err)] ELSE m

\* The loop of AppendError, lines 271-273.
RECURSIVE AppendEach(_, _)
AppendEach(m, errs) ==
    IF errs = <<>> THEN m
    ELSE AppendEach(MultiAppend(m, Head(errs)), Tail(errs))

\* The *MultiError in hand, passed as the err argument of AppendError.
MultiRef == [kind |-> "multi", msg |-> <<>>, id |-> 0]

\* mErr, ok := err.(*MultiError); if !ok { mErr = NewMultiError(err) }
AsMultiError(m, err) == IF err = MultiRef THEN m ELSE NewMultiError(<<err>>)

\* AppendError(err, errs...): the value it returns, NoMulti for nil.
AppendError(m, err, errs) ==
    IF err = NilErr /\ errs = <<>> THEN NoMulti
    ELSE IF errs = <<>> THEN AsMultiError(m, err)
    ELSE IF err = NilErr THEN NewMultiError(errs)
    ELSE AppendEach(AsMultiError(m, err), errs)

\* The text Error() builds from a list without nil entries; the branch for
\* fewer than 5 errors and the strings.Builder branch build the same text.
RECURSIVE JoinErrors(_)
JoinErrors(errs) ==
    IF Len(errs) = 1 THEN errs[1].msg
    ELSE JoinErrors(SubSeq(errs, 1, Len(errs) - 1)) \o separator
           \o errs[Len(errs)].msg

\* m.Errors[i].Error() on a nil interface value: a nil dereference.
MultiErrorPanics(m) ==
    m.made /\ \E i \in 1..Len(m.Errors) : m.Errors[i] = NilErr

\* A HasErrors that reports errors whatever the list holds.
HasErrorsAlways(m) == TRUE

\* HasErrors: false for a nil receiver, else len(m.Errors) > 0.
HasErrors(m) == m.made /\ Len(m.Errors) > 0

\* ErrorOrNil: nil for a nil receiver or an empty list, else m itself.
ErrorOrNil(m) == IF ~m.made \/ Len(m.Errors) = 0 THEN NilErr ELSE MultiRef

\* (*MultiError).Unwrap: nil for an empty list, else the list itself.
MultiUnwrap(m) == IF Len(m.Errors) = 0 THEN <<>> ELSE m.Errors

MultiErrorError(m) ==
    IF ~m.made \/ m.Errors = <<>> THEN <<>> ELSE JoinErrors(m.Errors)

\* Two errors with a message and errors.New("").
MultiErrs == {BaseErr(<<"e">>, 1), BaseErr(<<"f">>, 2), BaseErr(<<>>, 3)}

MaxMultiLen == 5

MaxArgs == 2

\* The variadic argument lists.
ArgLists == StringsUpTo({NilErr} \cup MultiErrs, MaxArgs)

\* Starts from "var m MultiError", as the tests do.
InitMulti ==
    /\ RetryIdle
    /\ DbgIdle
    /\ heap = <<>>
    /\ call = NoCall
    /\ ret = NoRet
    /\ panicked = FALSE
    /\ renders = <<>>
    /\ multi = [made |-> TRUE, Errors |-> <<>>]
    /\ CsvIdle
    /\ ParseIdle
    /\ CapIdle

CallNewMultiError ==
    /\ ~panicked
    /\ \E errs \in ArgLists :
          /\ call' = [NoCall EXCEPT !.fn = "NewMultiError", !.errs = errs]
          /\ multi' = NewMultiError(errs)
    /\ ret' = NoRet
    /\ UNCHANGED <<heap, panicked, renders, csvVars, parseVars, capVars, retryVars, dbgVars>>

CallAppendError ==
    /\ ~panicked
    /\ \E err \in {NilErr} \cup MultiErrs
                  \cup (IF multi.made THEN {MultiRef} ELSE {}),
          errs \in ArgLists :
          /\ Len(multi.Errors) + Len(errs) < MaxMultiLen
          /\ call' = [NoCall EXCEPT !.fn = "AppendError", !.err = err,
                                    !.errs = errs]
          /\ multi' = AppendError(multi, err, errs)
    /\ ret' = NoRet
    /\ UNCHANGED <<heap, panicked, renders, csvVars, parseVars, capVars, retryVars, dbgVars>>

CallAppend ==
    /\ ~panicked
    /\ Len(multi.Errors) < MaxMultiLen
    /\ \E err \in {NilErr} \cup MultiErrs :
          /\ call' = [NoCall EXCEPT !.fn = "Append", !.err = err]
          /\ multi' = MultiAppend(multi, err)
    /\ ret' = NoRet
    /\ UNCHANGED <<heap, panicked, renders, csvVars, parseVars, capVars, retryVars, dbgVars>>

CallMultiErrorError ==
    /\ ~panicked
    /\ call' = [NoCall EXCEPT !.fn = "MultiError.Error"]
    /\ IF MultiErrorPanics(multi)
       THEN panicked' = TRUE /\ ret' = NoRet
       ELSE panicked' = FALSE /\ ret' = ReturnText(MultiErrorError(multi))
    /\ UNCHANGED <<heap, renders, multi, csvVars, parseVars, capVars, retryVars, dbgVars>>

CallMultiUnwrap ==
    /\ ~panicked
    /\ multi.made
    /\ call' = [NoCall EXCEPT !.fn = "MultiError.Unwrap"]
    /\ ret' = [NoRet EXCEPT !.kind = "list", !.errs = MultiUnwrap(multi)]
    /\ UNCHANGED <<heap, panicked, renders, multi, csvVars, parseVars, capVars, retryVars, dbgVars>>

NextMulti ==
    \/ CallNewMultiError
    \/ CallAppendError
    \/ CallAppend
    \/ CallMultiErrorError
    \/ CallMultiUnwrap

SpecMulti == InitMulti /\ [][NextMulti]_vars

\* The non-nil errors among errs, in order.
NonNil(errs) == SelectSeq(errs, LAMBDA e : e # NilErr)

\* The errors a call supplies: its err argument, unless that is the
\* MultiError itself, then its variadic arguments.
Supplied(c) ==
    (IF c.err = MultiRef THEN <<>> ELSE <<c.err>>) \o c.errs

\* The list a call adds to: the list in hand for Append and for AppendError
\* handed the MultiError, a fresh one otherwise.
ListBefore(c) ==
    IF c.fn = "Append" \/ c.err = MultiRef THEN multi.Errors ELSE <<>>

\* C20: after any sequence of NewMultiError, AppendError and Append calls
\* the held list is exactly the non-nil errors supplied, in insertion
\* order: every entry point skips nil errors, the list never holds a nil
\* entry, and Error() never fails and returns their messages joined by
\* "; ".
C20_NilsSkipped ==
    /\ [](\A i \in 1..Len(multi.Errors) : multi.Errors[i] # NilErr)
    /\ [](call.fn = "MultiError.Error"
            => ~panicked /\ ret.text = MultiErrorError(multi))
    /\ [][call'.fn \in {"NewMultiError", "AppendError", "Append"}
            => multi'.Errors = ListBefore(call') \o NonNil(Supplied(call'))]_vars

-----------------------------------------------------------------------------
(* MultiError filled by Append alone, and its three emptiness views.        *)

CallHasErrors ==
    /\ ~panicked
    /\ call' = [NoCall EXCEPT !.fn = "HasErrors"]
    /\ ret' = [NoRet EXCEPT !.kind = "bool", !.ok = HasErrors(multi)]
    /\ UNCHANGED <<heap, panicked, renders, multi, csvVars, parseVars, capVars, retryVars, dbgVars>>

CallErrorOrNil ==
    /\ ~panicked
    /\ call' = [NoCall EXCEPT !.fn = "ErrorOrNil"]
    /\ ret' = [NoRet EXCEPT !.kind = "err", !.err = ErrorOrNil(multi)]
    /\ UNCHANGED <<heap, panicked, renders, multi, csvVars, parseVars, capVars, retryVars, dbgVars>>

NextAppend ==
    \/ CallAppend
    \/ CallMultiErrorError
    \/ CallHasErrors
    \/ CallErrorOrNil

SpecAppend == InitMulti /\ [][NextAppend]_vars

\* Some non-nil error has been appended: the list starts empty, an Append
\* of a non-nil error makes it non-empty for good, an Append of nil changes
\* nothing.
AppendCounts ==
    call'.fn = "Append"
    => /\ call'.err = NilErr => multi' = multi
       /\ (multi'.Errors # <<>>) <=> (multi.Errors # <<>> \/ call'.err # NilErr)

\* C21: for a MultiError filled by Append from the zero value, HasErrors()
\* is true iff ErrorOrNil() is non-nil iff Error() is non-empty iff at
\* least one non-nil error has been appended; appending nil changes none
\* of them.
C21_ViewsAgree ==
    /\ [][AppendCounts]_vars
    /\ [](call.fn = "HasErrors" => (ret.ok <=> multi.Errors # <<>>))
    /\ [](call.fn = "ErrorOrNil" => (ret.err # NilErr <=> multi.Errors # <<>>))
    /\ [](call.fn = "MultiError.Error"
            => ~panicked /\ (ret.text # <<>> <=> multi.Errors # <<>>))

\* Some held error has a message, or more than one error is held (the
\* separator then makes the text non-empty).
HasText(errs) ==
    Len(errs) > 1 \/ \E i \in 1..Len(errs) : errs[i].msg # <<>>

\* C21 amended: HasErrors() is true iff ErrorOrNil() is non-nil iff at
\* least one non-nil error has been appended; appending nil changes none
\* of the views; Error() never fails and is non-empty iff an appended error
\* has a non-empty message or more than one error has been appended.
C21_ViewsAgreeUpToEmptyMessage ==
    /\ [][AppendCounts]_vars
    /\ [](call.fn = "HasErrors" => (ret.ok <=> multi.Errors # <<>>))
    /\ [](call.fn = "ErrorOrNil" => (ret.err # NilErr <=> multi.Errors # <<>>))
    /\ [](call.fn = "MultiError.Error"
            => /\ ~panicked
               /\ ret.text # <<>> <=> HasText(multi.Errors)
               /\ ret.text # <<>> => multi.Errors # <<>>)

\* C21 witness: two errors were appended and HasErrors() has just reported
\* them.
C21_Witness ==
    /\ call.fn = "HasErrors"
    /\ ret.ok
    /\ Len(multi.Errors) = 2

-----------------------------------------------------------------------------
(* AppendError and what Unwrap() shows of its result.                       *)

\* C22: AppendError(err, errs...) returns nil when err is nil and errs is
\* empty; otherwise it returns a *MultiError whose Unwrap() holds exactly
\* the non-nil inputs, err first, then the non-nil elements of errs in
\* order; when err is already a *MultiError the new errors are appended to
\* that object, which is returned.
C22_AppendErrorNonNil ==
    /\ [][call'.fn = "AppendError"
            => IF call'.err = NilErr /\ call'.errs = <<>>
               THEN multi' = NoMulti
               ELSE /\ multi'.made
                    /\ MultiUnwrap(multi')
                         = ListBefore(call') \o NonNil(Supplied(call'))]_vars
    /\ [](call.fn = "MultiError.Unwrap" => ret.errs = multi.Errors)

-----------------------------------------------------------------------------
(* 64-bit integers (Go's int and time.Duration), as 8 bytes, low byte       *)
(* first, so that products wrap as the machine's do.                        *)

RECURSIVE Bytes(_, _)
Bytes(n, k) == IF k = 0 THEN <<>> ELSE <<n % 256>> \o Bytes(n \div 256, k - 1)

\* A small non-negative number as a 64-bit value.
W64(n) == Bytes(n, 8)

RECURSIVE ColSum(_, _, _, _)
ColSum(a, b, j, i) ==
    IF i > j THEN 0 ELSE a[i] * b[j - i + 1] + ColSum(a, b, j, i + 1)

RECURSIVE MulFrom(_, _, _, _)
MulStep(a, b, j, t) == <<t % 256>> \o MulFrom(a, b, j + 1, t \div 256)

MulFrom(a, b, j, carry) ==
    IF j > 8 THEN <<>> ELSE MulStep(a, b, j, ColSum(a, b, j, 1) + carry)

\* a * b, the low 64 bits.
Mul64(a, b) == MulFrom(a, b, 1, 0)

\* 1 << k on a 64-bit int: 0 from k = 64 on.
RECURSIVE Shl1(_)
Shl1(k) == IF k = 0 THEN W64(1) ELSE Mul64(Shl1(k - 1), W64(2))

\* The sign bit.
IsNegative64(x) == x[8] >= 128

\* time.Millisecond, in nanoseconds.
Millisecond == W64(1000000)

-----------------------------------------------------------------------------
(* retry.Execute.                                                           *)

\* time.Duration(1000*(1<<retryCount)) * time.Millisecond
ExponentialBackoff1sPower2(retryCount) ==
    Mul64(Mul64(W64(1000), Shl1(retryCount)), Millisecond)

\* time.Duration(3000*(1<<retryCount)) * time.Millisecond
ExponentialBackoff3sPower2(retryCount) ==
    Mul64(Mul64(W64(3000), Shl1(retryCount)), Millisecond)

\* config.ExponentialBackoff: unset, or one of the package's functions.
Backoffs == {"nil", "1sPower2", "3sPower2"}

\* Lines 45-51: the configured function, ExponentialBackoff1sPower2 when
\* none is set.
BackoffDelay(backoff, retryCount) ==
    IF backoff = "3sPower2" THEN ExponentialBackoff3sPower2(retryCount)
    ELSE ExponentialBackoff1sPower2(retryCount)

\* The duration handed to time.After at line 56: delay * time.Millisecond.
AfterArg(delay) == Mul64(delay, Millisecond)

MaxTimes == 16

\* The error the n-th invocation of task returns when it fails.
AttemptErr(n) == BaseErr(<<"e">>, n)

InitRetry ==
    /\ ObjIdle
    /\ CsvIdle
    /\ ParseIdle
    /\ CapIdle
    /\ MultiIdle
    /\ DbgIdle
    /\ \E times \in 0..MaxTimes, backoff \in Backoffs :
          rt = [fn |-> "Execute", pc |-> "start", Times |-> times,
                backoff |-> backoff, i |-> 0, Errors |-> <<>>,
                ctxDone |-> FALSE, sawDone |-> FALSE, calls |-> 0,
                waits |-> <<>>, result |-> "zero", err |-> NilErr]

\* return defaultResult, mRetryErr.ErrorOrNil()
ExecuteGivesUp(r) ==
    [r EXCEPT !.pc = "done", !.result = "zero",
              !.err = ErrorOrNil([made |-> TRUE, Errors |-> r.Errors])]

\* for i := 0; i < config.Times; i++ : the test before an invocation.
ExecuteLoop(r) == IF r.i < r.Times THEN [r EXCEPT !.pc = "task"]
                  ELSE ExecuteGivesUp(r)

ExecuteStart ==
    /\ rt.pc = "start"
    /\ rt' = ExecuteLoop(rt)
    /\ UNCHANGED <<objVars, csvVars, parseVars, capVars, multiVars, dbgVars>>

\* task returns a nil error: lines 34-36.
TaskSucceeds ==
    /\ rt.pc = "task"
    /\ rt' = [rt EXCEPT !.pc = "done", !.calls = @ + 1, !.result = "r",
                        !.err = NilErr]
    /\ UNCHANGED <<objVars, csvVars, parseVars, capVars, multiVars, dbgVars>>

\* A loop body without the break of lines 41-43: it waits after every
\* failure.
AfterFailureAlwaysWaits(r) ==
    [r EXCEPT !.pc = "wait",
              !.waits = Append(@, AfterArg(BackoffDelay(r.backoff, r.i + 1)))]

\* What follows a failed invocation once its error is kept: the break of
\* lines 41-43, or the delay of lines 45-51 and the select.
AfterFailure(r) ==
    IF r.i = r.Times - 1 THEN ExecuteGivesUp(r)
    ELSE [r EXCEPT !.pc = "wait",
                   !.waits = Append(@, AfterArg(BackoffDelay(r.backoff, r.i + 1)))]

\* task returns an error: lines 37-51.
TaskFails ==
    /\ rt.pc = "task"
    /\ rt' = AfterFailure([rt EXCEPT !.calls = @ + 1,
                                     !.Errors = Append(@, AttemptErr(rt.calls + 1))])
    /\ UNCHANGED <<objVars, csvVars, parseVars, capVars, multiVars, dbgVars>>

\* case <-time.After(...): the next iteration.
WaitElapsed ==
    /\ rt.pc = "wait"
    /\ rt' = ExecuteLoop([rt EXCEPT !.i = @ + 1])
    /\ UNCHANGED <<objVars, csvVars, parseVars, capVars, multiVars, dbgVars>>

\* case <-ctx.Done(): lines 54-55.
WaitCancelled ==
    /\ rt.pc = "wait"
    /\ rt.ctxDone
    /\ rt' = ExecuteGivesUp([rt EXCEPT !.sawDone = TRUE])
    /\ UNCHANGED <<objVars, csvVars, parseVars, capVars, multiVars, dbgVars>>

\* The caller cancels ctx, at any time.
CtxCancel ==
    /\ rt.pc # "done"
    /\ ~rt.ctxDone
    /\ rt' = [rt EXCEPT !.ctxDone = TRUE]
    /\ UNCHANGED <<objVars, csvVars, parseVars, capVars, multiVars, dbgVars>>

NextRetry ==
    \/ ExecuteStart
    \/ TaskSucceeds
    \/ TaskFails
    \/ WaitElapsed
    \/ WaitCancelled
    \/ CtxCancel

SpecRetry == InitRetry /\ [][NextRetry]_vars

\* The errors of attempts 1..n, in attempt order.
AttemptErrs(n) == [k \in 1..n |-> AttemptErr(k)]

C24_WaitIsBackoff ==
    \A k \in 1..Len(rt.waits) :
        /\ rt.waits[k] = BackoffDelay(rt.backoff, k)
        /\ rt.backoff # "3sPower2"
           => rt.waits[k] = Mul64(W64(1000 * 2^k), Millisecond)
        /\ ~IsNegative64(rt.waits[k])

-----------------------------------------------------------------------------
(* httpext: the two classifiers the retry loops consult.                    *)

UpperCase == <<"A", "B", "C", "D", "E", "F", "G", "H", "I", "J", "K", "L", "M", "N", "O", "P", "Q", "R", "S", "T", "U", "V", "W", "X", "Y", "Z">>
LowerCase == <<"a", "b", "c", "d", "e", "f", "g", "h", "i", "j", "k", "l", "m", "n", "o", "p", "q", "r", "s", "t", "u", "v", "w", "x", "y", "z">>

ToLowerChar(c) ==
    IF \E i \in 1..26 : UpperCase[i] = c
    THEN LowerCase[CHOOSE i \in 1..26 : UpperCase[i] = c]
    ELSE c

\* strings.ToLower, on ASCII text.
ToLower(str) == [i \in 1..Len(str) |-> ToLowerChar(str[i])]

\* An error whose dynamic type is a net.Error with Timeout() true.
NetTimeoutErr(m, i) == [kind |-> "nettimeout", msg |-> m, id |-> i]

\* if netErr, ok := err.(net.Error); ok && netErr.Timeout()
IsNetTimeout(err) == err.kind = "nettimeout"

\* The messages IsTransientNetworkOrDNSIssueErr looks for, lines 75-86.
TransientMessages ==
    { <<"c", "o", "n", "n", "e", "c", "t", "i", "o", "n", " ", "r", "e", "s", "e", "t", " ", "b", "y", " ", "p", "e", "e", "r">>,
      <<"b", "r", "o", "k", "e", "n", " ", "p", "i", "p", "e">>,
      <<"c", "o", "n", "n", "e", "c", "t", "i", "o", "n", " ", "r", "e", "f", "u", "s", "e", "d">>,
      <<"c", "o", "n", "n", "e", "c", "t", "i", "o", "n", " ", "t", "i", "m", "e", "d", " ", "o", "u", "t">>,
      <<"n", "o", " ", "s", "u", "c", "h", " ", "h", "o", "s", "t">>,
      <<"t", "l", "s", " ", "h", "a", "n", "d", "s", "h", "a", "k", "e", " ", "t", "i", "m", "e", "o", "u", "t">>,
      <<"t", "e", "m", "p", "o", "r", "a", "r", "y", " ", "f", "a", "i", "l", "u", "r", "e", " ", "i", "n", " ", "n", "a", "m", "e", " ", "r", "e", "s", "o", "l", "u", "t", "i", "o", "n">>,
      <<"n", "e", "t", "w", "o", "r", "k", " ", "i", "s", " ", "u", "n", "r", "e", "a", "c", "h", "a", "b", "l", "e">>,
      <<"c", "o", "n", "n", "e", "c", "t", "i", "o", "n", " ", "c", "l", "o", "s", "e", "d">>,
      <<"h", "t", "t", "p", "2", ":", " ", "s", "e", "r", "v", "e", "r", " ", "s", "e", "n", "t", " ", "g", "o", "a", "w", "a", "y">>,
      <<"u", "n", "e", "x", "p", "e", "c", "t", "e", "d", " ", "e", "o", "f">>,
      <<"s", "e", "r", "v", "e", "r", " ", "m", "i", "s", "b", "e", "h", "a", "v", "i", "n", "g">> }

\* The messages IsDialError looks for, lines 147-149.
DialMessages ==
    { <<"n", "e", "t", "w", "o", "r", "k", " ", "i", "s", " ", "u", "n", "r", "e", "a", "c", "h", "a", "b", "l", "e">>,
      <<"n", "o", " ", "s", "u", "c", "h", " ", "h", "o", "s", "t">>,
      <<"i", "/", "o", " ", "t", "i", "m", "e", "o", "u", "t">> }

ContainsAny(str, subs) == \E sub \in subs : Contains(str, sub)

\* Lines 65-68: one level of errors.Unwrap, kept when it is non-nil.
UnwrappedOnce(err) ==
    IF ErrorsUnwrap(<<>>, err) # NilErr THEN ErrorsUnwrap(<<>>, err) ELSE err

TransientAfterUnwrap(err) ==
    IsNetTimeout(err) \/ ContainsAny(ToLower(err.msg), TransientMessages)

IsTransientNetworkOrDNSIssueErr(err) ==
    err # NilErr /\ TransientAfterUnwrap(UnwrappedOnce(err))

\* IsDialError on the errors at hand: a net.Error that timed out (found by
\* errors.As, and again by os.IsTimeout), else the message test, which
\* does not lower the case.  No *net.OpError or *net.DNSError is at hand.
IsDialError(err) ==
    /\ err # NilErr
    /\ \/ IsNetTimeout(err)
       \/ ContainsAny(err.msg, DialMessages)

\* What f can fail with: an error neither classifier accepts, one only the
\* transient classifier accepts (twice: by its message, and by its message
\* in another case), one only the dial classifier accepts, and two that
\* both accept.
OutageErrs ==
    { BaseErr(<<"b", "o", "o", "m">>, 1),
      BaseErr(<<"b", "r", "o", "k", "e", "n", " ", "p", "i", "p", "e">>, 2),
      BaseErr(<<"B", "r", "o", "k", "e", "n", " ", "P", "i", "p", "e">>, 3),
      BaseErr(<<"i", "/", "o", " ", "t", "i", "m", "e", "o", "u", "t">>, 4),
      BaseErr(<<"n", "o", " ", "s", "u", "c", "h", " ", "h", "o", "s", "t">>, 5),
      NetTimeoutErr(<<"i", "/", "o", " ", "t", "i", "m", "e", "o", "u", "t">>, 6) }

\* ctx.Err() of a cancelled context.
CtxErr == BaseErr(<<"c", "o", "n", "t", "e", "x", "t", " ", "c", "a", "n", "c", "e", "l", "e", "d">>, 7)

-----------------------------------------------------------------------------
(* retry.OnNetworkErrorWithConfig and retry.OnConnectionErrorWithConfig.    *)

\* A loop that holds no error to be final.
ReturnsAtOnceNever(fn, err) == FALSE

\* The test that ends the loop with the error as it is: line 55 of
\* OnNetworkErrorWithConfig, line 51 of OnConnectionErrorWithConfig.
ReturnsAtOnce(fn, err) ==
    IF fn = "OnNetworkErrorWithConfig" THEN ~IsDialError(err)
    ELSE ~IsTransientNetworkOrDNSIssueErr(err) \/ ~IsDialError(err)

MaxAttemptsBound == 3

OutageFns == {"OnNetworkErrorWithConfig", "OnConnectionErrorWithConfig"}

InitOutage ==
    /\ ObjIdle
    /\ CsvIdle
    /\ ParseIdle
    /\ CapIdle
    /\ MultiIdle
    /\ DbgIdle
    /\ \E fn \in OutageFns, max \in 0..MaxAttemptsBound :
          rt = [fn |-> fn, pc |-> "select", MaxAttempts |-> max,
                attempt |-> 0, calls |-> 0, ctxDone |-> FALSE,
                sawDone |-> FALSE, lastErr |-> NilErr, result |-> "zero",
                err |-> NilErr, wrap |-> "none"]

OutageReturn(r, res, err, wrap) ==
    [r EXCEPT !.pc = "done", !.result = res, !.err = err, !.wrap = wrap]

\* The select at the head of the loop: with ctx done the Done case is the
\* one ready, else the default case runs and invokes f.
OutageSelect ==
    /\ rt.pc = "select"
    /\ rt' = IF rt.ctxDone
             THEN OutageReturn([rt EXCEPT !.sawDone = TRUE], rt.result,
                               CtxErr, "none")
             ELSE [rt EXCEPT !.pc = "f", !.calls = @ + 1]
    /\ UNCHANGED <<objVars, csvVars, parseVars, capVars, multiVars, dbgVars>>

\* After attempt++: the two limits, else the sleep.
AfterAttempt(r, late) ==
    IF r.attempt >= r.MaxAttempts
    THEN OutageReturn(r, r.result, r.lastErr, "max retry attempts reached")
    ELSE IF late
    THEN OutageReturn(r, r.result, r.lastErr, "max wait time exceeded")
    ELSE [r EXCEPT !.pc = "sleep"]

\* The code that follows f's return, up to a return or the sleep.
AfterF(r, err, late) ==
    IF err = NilErr THEN OutageReturn(r, "r", NilErr, "none")
    ELSE IF ReturnsAtOnce(r.fn, err)
    THEN OutageReturn([r EXCEPT !.lastErr = err], r.result, err, "none")
    ELSE AfterAttempt([r EXCEPT !.lastErr = err, !.attempt = @ + 1], late)

\* f returns; late tells whether time.Since(startTime) > MaxWaitTime.
FReturns ==
    /\ rt.pc = "f"
    /\ \E err \in {NilErr} \cup OutageErrs, late \in BOOLEAN :
          rt' = AfterF(rt, err, late)
    /\ UNCHANGED <<objVars, csvVars, parseVars, capVars, multiVars, dbgVars>>

\* time.Sleep(waitDuration) returns.
SleepEnds ==
    /\ rt.pc = "sleep"
    /\ rt' = [rt EXCEPT !.pc = "select"]
    /\ UNCHANGED <<objVars, csvVars, parseVars, capVars, multiVars, dbgVars>>

NextOutage ==
    \/ OutageSelect
    \/ FReturns
    \/ SleepEnds
    \/ CtxCancel

SpecOutage == InitOutage /\ [][NextOutage]_vars

\* Every call of f returns, every sleep ends, and the loop runs on.
SpecOutageFair ==
    /\ SpecOutage
    /\ WF_vars(OutageSelect)
    /\ WF_vars(FReturns)
    /\ WF_vars(SleepEnds)

MaxOf(a, b) == IF a > b THEN a ELSE b

\* f has just returned the error rt'.lastErr.
FReturnedError == rt.pc = "f" /\ rt'.pc # "f" /\ rt'.lastErr # NilErr

\* C25: OnNetworkErrorWithConfig terminates whenever every call of f
\* returns; f is invoked at most max(1, MaxAttempts) times; an error for
\* which IsDialError is false is returned unchanged right after the
\* invocation that produced it; when the attempt count reaches MaxAttempts
\* the last error is returned wrapped as "max retry attempts reached"; and
\* f is never invoked in an iteration that observed ctx as done, ctx.Err()
\* being returned instead.
C25_NetworkRetryTerminates ==
    /\ [](rt.fn = "OnNetworkErrorWithConfig"
           => rt.calls <= MaxOf(1, rt.MaxAttempts))
    /\ [][(rt.fn = "OnNetworkErrorWithConfig" /\ FReturnedError
            /\ ~IsDialError(rt'.lastErr))
           => /\ rt'.pc = "done"
              /\ rt'.err = rt'.lastErr
              /\ rt'.wrap = "none"]_vars
    /\ [][(rt.fn = "OnNetworkErrorWithConfig" /\ rt'.attempt # rt.attempt
            /\ rt'.attempt >= rt.MaxAttempts)
           => /\ rt'.pc = "done"
              /\ rt'.err = rt'.lastErr
              /\ rt'.wrap = "max retry attempts reached"]_vars
    /\ [][(rt.fn = "OnNetworkErrorWithConfig" /\ rt.pc = "select"
            /\ rt.ctxDone /\ rt' # rt)
           => /\ rt'.calls = rt.calls
              /\ rt'.pc = "done"
              /\ rt'.err = CtxErr]_vars
    /\ (rt.fn = "OnNetworkErrorWithConfig") ~> (rt.pc = "done")

\* C25 witness: the run used up its attempts on dial errors.
C25_Witness ==
    /\ rt.fn = "OnNetworkErrorWithConfig"
    /\ rt.pc = "done"
    /\ rt.MaxAttempts = 3
    /\ rt.calls = 3
    /\ rt.wrap = "max retry attempts reached"

\* C26: OnConnectionErrorWithConfig retries f, subject to MaxAttempts and
\* MaxWaitTime, for every error IsTransientNetworkOrDNSIssueErr or
\* IsDialError accepts; it returns the error at once, without retrying,
\* only when neither accepts it.
C26_RetriesConnectionErrors ==
    [][(rt.fn = "OnConnectionErrorWithConfig" /\ FReturnedError)
       => ((rt'.pc = "done" /\ rt'.wrap = "none")
           <=> (/\ ~IsTransientNetworkOrDNSIssueErr(rt'.lastErr)
                /\ ~IsDialError(rt'.lastErr)))]_vars


-----------------------------------------------------------------------------
\* DebugContext: src/debug_context.go, lines 9 to 38.  dbg.ctxs holds the
\* DebugContext objects, each with its own mutex (mu: 0 when free, else
\* the goroutine holding it) and its data field (0 for a nil map, else
\* the index of a map in dbg.maps).  dbg.procs holds the goroutines
\* calling WithValue and PrintValues, a call going through Lock, the
\* start of its map access, and its return with the deferred Unlock.

MaxCtxs == 3
NumGoroutines == 2

Goroutines == 1..NumGoroutines
DbgKeys == {"k1", "k2"}
DbgVals == {"v1", "v2"}
NoVal == "absent"

\* make(map[interface{}]interface{})
EmptyMap == [k \in DbgKeys |-> NoVal]

\* A goroutine between calls.
IdleProc == [pc |-> "idle", op |-> "none", d |-> 0, key |-> NoVal,
             val |-> NoVal, acc |-> 0, write |-> FALSE]

\* One DebugContext{Context: ctx}, its map nil, and the goroutines idle.
InitDbg ==
    /\ dbg = [ctxs |-> << [mu |-> 0, data |-> 0] >>,
              maps |-> <<>>,
              procs |-> [g \in Goroutines |-> IdleProc],
              fatal |-> FALSE]
    /\ heap = <<>>
    /\ call = NoCall
    /\ ret = NoRet
    /\ panicked = FALSE
    /\ renders = 0
    /\ CsvIdle
    /\ ParseIdle
    /\ CapIdle
    /\ MultiIdle
    /\ RetryIdle

DbgOthers == <<objVars, csvVars, parseVars, capVars, multiVars, retryVars>>

\* The values recorded for the DebugContext d when the objects are db.
ValuesOf(db, d) ==
    IF db.ctxs[d].data = 0 THEN EmptyMap ELSE db.maps[db.ctxs[d].data]

Recorded(d) == ValuesOf(dbg, d)

\* Another goroutine is inside an access to the map m that conflicts with
\* an access by g, a write if write holds and a read otherwise.
Conflicts(g, m, write) ==
    \E h \in Goroutines \ {g} :
        /\ dbg.procs[h].pc = "access"
        /\ dbg.procs[h].acc = m
        /\ m # 0
        /\ (write \/ dbg.procs[h].write)

\* What the runtime may do with an access that starts while a
\* conflicting one is under way: it throws "concurrent map writes" or
\* "concurrent map read and map write" when it notices, and goes on when
\* it does not.
FatalOutcomes(g, m, write) ==
    IF Conflicts(g, m, write) THEN {TRUE, FALSE} ELSE {FALSE}

\* A goroutine calls d.WithValue(key, val).
CallWithValue(g) ==
    /\ ~dbg.fatal
    /\ dbg.procs[g].pc = "idle"
    /\ \E d \in 1..Len(dbg.ctxs), key \in DbgKeys, val \in DbgVals :
          dbg' = [dbg EXCEPT !.procs[g] =
                     [IdleProc EXCEPT !.pc = "lock", !.op = "WithValue",
                                      !.d = d, !.key = key, !.val = val]]
    /\ UNCHANGED DbgOthers

\* A goroutine calls d.PrintValues().
CallPrintValues(g) ==
    /\ ~dbg.fatal
    /\ dbg.procs[g].pc = "idle"
    /\ \E d \in 1..Len(dbg.ctxs) :
          dbg' = [dbg EXCEPT !.procs[g] =
                     [IdleProc EXCEPT !.pc = "lock", !.op = "PrintValues",
                                      !.d = d]]
    /\ UNCHANGED DbgOthers

\* d.mu.Lock(): lines 16 and 31.
Lock(g) ==
    /\ ~dbg.fatal
    /\ dbg.procs[g].pc = "lock"
    /\ dbg.ctxs[dbg.procs[g].d].mu = 0
    /\ dbg' = [dbg EXCEPT !.ctxs[dbg.procs[g].d].mu = g,
                          !.procs[g].pc = "locked"]
    /\ UNCHANGED DbgOthers

\* Lines 19 to 22: the map is made when d.data is nil, and the write
\* d.data[key] = val starts.
WithValueWrite(g) ==
    LET p == dbg.procs[g]
        fresh == dbg.ctxs[p.d].data = 0
        m == IF fresh THEN Len(dbg.maps) + 1 ELSE dbg.ctxs[p.d].data
    IN  /\ ~dbg.fatal
        /\ p.pc = "locked"
        /\ p.op = "WithValue"
        /\ \E fatal \in FatalOutcomes(g, m, TRUE) :
              dbg' = [dbg EXCEPT
                         !.maps = IF fresh THEN Append(@, EmptyMap) ELSE @,
                         !.ctxs[p.d].data = m,
                         !.procs[g].pc = "access",
                         !.procs[g].acc = m,
                         !.procs[g].write = TRUE,
                         !.fatal = fatal]
        /\ UNCHANGED DbgOthers

\* Line 35: the range over d.data starts; a nil map has nothing to read.
PrintValuesRange(g) ==
    LET p == dbg.procs[g]
        m == dbg.ctxs[p.d].data
    IN  /\ ~dbg.fatal
        /\ p.pc = "locked"
        /\ p.op = "PrintValues"
        /\ \E fatal \in FatalOutcomes(g, m, FALSE) :
              dbg' = [dbg EXCEPT !.procs[g].pc = "access",
                                 !.procs[g].acc = m,
                                 !.procs[g].write = FALSE,
                                 !.fatal = fatal]
        /\ UNCHANGED DbgOthers

\* The DebugContext of lines 24 to 27: a mutex of its own, the map of d.
Derived(m) == [mu |-> 0, data |-> m]

\* Lines 22 to 27 and the deferred Unlock: the write is done, the derived
\* DebugContext is returned, and d.mu is released.  The caller keeps the
\* result while there is room for it.
WithValueReturn(g) ==
    LET p == dbg.procs[g]
    IN  /\ ~dbg.fatal
        /\ p.pc = "access"
        /\ p.op = "WithValue"
        /\ dbg' = [dbg EXCEPT
                      !.maps[p.acc][p.key] = p.val,
                      !.ctxs = IF Len(@) < MaxCtxs
                                 THEN Append([@ EXCEPT ![p.d].mu = 0],
                                             Derived(p.acc))
                                 ELSE [@ EXCEPT ![p.d].mu = 0],
                      !.procs[g] = IdleProc]
        /\ UNCHANGED DbgOthers

\* The end of the range and the deferred Unlock of line 32.
PrintValuesReturn(g) ==
    LET p == dbg.procs[g]
    IN  /\ ~dbg.fatal
        /\ p.pc = "access"
        /\ p.op = "PrintValues"
        /\ dbg' = [dbg EXCEPT !.ctxs[p.d].mu = 0,
                              !.procs[g] = IdleProc]
        /\ UNCHANGED DbgOthers

NextDbg ==
    \E g \in Goroutines :
        \/ CallWithValue(g)
        \/ CallPrintValues(g)
        \/ Lock(g)
        \/ WithValueWrite(g)
        \/ PrintValuesRange(g)
        \/ WithValueReturn(g)
        \/ PrintValuesReturn(g)

SpecDbg == InitDbg /\ [][NextDbg]_vars

\* Two goroutines are inside the same map at once, one of them writing.
MapRace ==
    \E g \in Goroutines :
        /\ dbg.procs[g].pc = "access"
        /\ Conflicts(g, dbg.procs[g].acc, dbg.procs[g].write)

\* The goroutine g returns from WithValue in this step.
WithValueReturns(g) ==
    /\ dbg.procs[g].pc = "access"
    /\ dbg.procs[g].op = "WithValue"
    /\ dbg'.procs[g].pc = "idle"

\* C27: every read and write of a DebugContext's value map is mutually
\* exclusive with every other access to that same map, for any
\* interleaving of WithValue and PrintValues calls on a DebugContext and
\* on the contexts derived from it: no goroutine is inside the map while
\* another writes it, and WithValue does not change the values recorded
\* for the receiver it was called on.
C27_MapAccessExclusive ==
    /\ [](~MapRace /\ ~dbg.fatal)
    /\ [][\A g \in Goroutines :
            WithValueReturns(g)
              => ValuesOf(dbg', dbg.procs[g].d) = Recorded(dbg.procs[g].d)]_vars


-----------------------------------------------------------------------------
(* The wrapping entry points built on NewMetaError: Errorf and Slog.  Each  *)
(* calls NewMetaError from its own body, so its frame lies between the      *)
(* caller's and NewMetaError's.                                             *)

\* "app.Errorf" at its call of NewMetaError, line 33, and "app.Slog" at
\* its call, line 48.
FrameErrorf == Frame(<<"a", "p", "p", ".", "E">>, AppFile, 33)

FrameSlog == Frame(<<"a", "p", "p", ".", "S">>, AppFile, 48)

\* Errorf(format, args...), called from the call site on top of stack;
\* err is the error fmt.Errorf(format, args...) makes, never a *MetaError.
CallErrorf(err, stack) ==
    /\ Len(heap) < MaxObjs
    /\ call' = [NoCall EXCEPT !.fn = "Errorf", !.err = err, !.stack = stack]
    /\ Allocate(NewMetaErrorOptions(err, 2, TRUE, TRUE,
                    <<FrameOptions, FrameNew, FrameErrorf>> \o stack))
    /\ panicked' = FALSE
    /\ UNCHANGED <<csvVars, multiVars, parseVars, capVars, retryVars, dbgVars>>

\* The attributes Slog returns: "error_meta" is err, and "file_meta",
\* "line_meta" and "func_meta" are read from the object i.
ReturnAttrs(err, i) ==
    [NoRet EXCEPT !.kind = "attrs", !.err = MetaRef(i), !.errs = <<err>>]

\* Slog(err), called from the call site on top of stack.
CallSlog(err, stack) ==
    /\ ~IsMetaError(err) => Len(heap) < MaxObjs
    /\ call' = [NoCall EXCEPT !.fn = "Slog", !.err = err, !.stack = stack]
    /\ IF IsMetaError(err)
       THEN /\ ret' = ReturnAttrs(err, err.id)
            /\ UNCHANGED <<heap, renders>>
       ELSE /\ heap' = Append(heap,
                   NewMetaErrorOptions(err, 2, TRUE, TRUE,
                       <<FrameOptions, FrameNew, FrameSlog>> \o stack))
            /\ renders' = Append(renders, 0)
            /\ ret' = ReturnAttrs(err, Len(heap) + 1)
    /\ panicked' = FALSE
    /\ UNCHANGED <<csvVars, multiVars, parseVars, capVars, retryVars, dbgVars>>

NextEntry ==
    \/ \E err \in Errs(heap), stack \in UserStacks :
          CallNewMetaError(err, stack)
    \/ \E err \in BaseErrs, stack \in UserStacks : CallErrorf(err, stack)
    \/ \E err \in Errs(heap), stack \in UserStacks : CallSlog(err, stack)

SpecEntry == Init /\ [][NextEntry]_vars

\* C28: every public wrapping entry point records the call site of its own
\* caller: for Errorf called from function G at file f, line l, the
\* returned MetaError has Func = G, File = the base name of f and Line = l,
\* as NewMetaError records when G calls it directly, and the same holds
\* for the MetaError built inside Slog.
C28_EntryPointsRecordCaller ==
    (/\ call.fn \in {"NewMetaError", "Errorf", "Slog"}
     /\ ~IsMetaError(call.err))
       => IsCallSiteOf(Head(call.stack), heap[ret.err.id])

=============================================================================
